---- MODULE Spec2Model ----
(***************************************************************************)
(* Verification model of the conversational glasses apps:                  *)
(*   - CodexWsClient, the JSON-RPC client over a WebSocket                 *)
(*     (apps/codex/main.ts), specifications SpecRpc and SpecRetry;         *)
(*   - the Codex turn/thread controller (apps/codex/main.ts),              *)
(*     specifications SpecCodex (handshake), SpecTurn (a turn),            *)
(*     SpecServer (requests of the app-server) and SpecInterrupt (the      *)
(*     action button and call timeouts during a turn);                     *)
(*   - the G2 Claude polling controller with its run version               *)
(*     (apps/g2claude/main.ts), specification SpecClaude;                  *)
(*   - the server's failure reports and agent messages in a turn,          *)
(*     specification SpecFailure; the microphone buffer and the WAV        *)
(*     encoder, specification SpecAudio; the conversation history,         *)
(*     specification SpecHistory.                                          *)
(* One JavaScript task (an event callback together with the microtasks it  *)
(* schedules) is one action.                                               *)
(***************************************************************************)
EXTENDS Integers, Sequences, FiniteSets, TLC

\* ------------------------------------------------------------------------
\* Bounds of the model
\* ------------------------------------------------------------------------
MaxSockets == 2
MaxCalls == 3
MaxReqs == 2
MaxRetryReqs == 1
MaxHandshakeCalls == 3
MaxPresses == 2
MaxFlows == 3
MaxTurnCalls == 4
MaxTurnPresses == 1
MaxTurnSockets == 1
MaxDeltas == 2
MaxTurns == 1

\* ------------------------------------------------------------------------
\* Program constants
\* ------------------------------------------------------------------------
OVERLOADED_ERROR_CODE == -32001
BASE_BACKOFF_MS == 1000
maxAttempts == 3
DEFAULT_RPC_ERROR_CODE == -32000

\* Math.random() in thousandths: representative draws of [0, 1)
RandPermille == {0, 999}

Max(a, b) == IF a >= b THEN a ELSE b

RECURSIVE Pow2(_)
Pow2(n) == IF n = 0 THEN 1 ELSE 2 * Pow2(n - 1)

\* ------------------------------------------------------------------------
\* State of one CodexWsClient and of its sockets
\* ------------------------------------------------------------------------
VARIABLES
  ws,             \* this.ws: the socket the client holds, 0 for null
  readyState,     \* readyState of every socket created so far
  listeners,      \* sockets that carry the client's message/close listeners
  closedByClient, \* this.closedByClient
  nextId,         \* this.nextId
  pending,        \* this.pending: requestKey -> PendingRequest
  timers,         \* armed request timeouts (timeoutId = index of the call)
  calls,          \* every requestWithId invocation and its promise
  reqs,           \* every request() invocation and its retry loop
  sent,           \* frames handed to ws.send, in order
  delivered,      \* handler invocations (notification / server request)
  closeLog,       \* closeHandler invocations: [sock, unexpected]
  closeCalled,    \* sockets that were the client's when it called close() (observation only)
  connectPc,      \* position of the running connect()
  connectSock,    \* socket that connect() is opening
  last,           \* the inbound response dispatched last, if any (observation only)
  state,          \* the Codex controller's `state` object
  flows,          \* activations of the controller's async functions, parked at an await
  obs             \* what the turn received and how it ended (observation only)

rpcVars == <<ws, readyState, listeners, closedByClient, nextId, pending, timers,
             calls, reqs, sent, delivered, closeLog, closeCalled, connectPc, connectSock>>

ctlVars == <<state, flows, obs>>

vars == <<rpcVars, last, ctlVars>>

Sockets == 1..MaxSockets

\* typeof id, String(id)
NumId(n) == [t |-> "number", v |-> n]
StrId(n) == [t |-> "string", v |-> n]

requestKeyUntyped(id) == <<"id", id.v>>

\* `${typeof id}:${String(id)}`
requestKey(id) == <<id.t, id.v>>

\* The client state as one record, so that methods compose
Cur == [ws |-> ws, readyState |-> readyState, listeners |-> listeners,
        closedByClient |-> closedByClient, nextId |-> nextId,
        pending |-> pending, timers |-> timers, calls |-> calls, reqs |-> reqs,
        sent |-> sent, delivered |-> delivered, closeLog |-> closeLog,
        closeCalled |-> closeCalled,
        connectPc |-> connectPc, connectSock |-> connectSock]

SetClient(st) ==
  /\ ws' = st.ws
  /\ readyState' = st.readyState
  /\ listeners' = st.listeners
  /\ closedByClient' = st.closedByClient
  /\ nextId' = st.nextId
  /\ pending' = st.pending
  /\ timers' = st.timers
  /\ calls' = st.calls
  /\ reqs' = st.reqs
  /\ sent' = st.sent
  /\ delivered' = st.delivered
  /\ closeLog' = st.closeLog
  /\ closeCalled' = st.closeCalled
  /\ connectPc' = st.connectPc
  /\ connectSock' = st.connectSock

\* The Map this.pending as the set of its entries [key, call, timeoutId]
Keys(m) == {e.key : e \in m}
MapGet(m, k) == CHOOSE e \in m : e.key = k
MapDelete(m, k) == {e \in m : e.key # k}
MapSet(m, e) == MapDelete(m, e.key) \cup {e}
EmptyMap == {}


\* ------------------------------------------------------------------------
\* computeBackoffMs: BASE * 2^attempt * (1 + (random*0.4 - 0.2)), rounded,
\* at least 100. r is Math.random() in thousandths.
\* ------------------------------------------------------------------------
computeBackoffMsNoExp(attempt, r) ==
  Max(100, (2 * BASE_BACKOFF_MS * (8000 + 4 * r) + 10000) \div 20000)

computeBackoffMs(attempt, r) ==
  LET exponential == BASE_BACKOFF_MS * Pow2(attempt)
  IN Max(100, (2 * exponential * (8000 + 4 * r) + 10000) \div 20000)

\* ------------------------------------------------------------------------
\* Promise plumbing: what runs, in the same task, when a call settles
\* ------------------------------------------------------------------------
IsOverloaded(outcome, code) == outcome = "rpcError" /\ code = OVERLOADED_ERROR_CODE

\* request(): the catch clause of the retry loop
requestCatchRetryAll(st, i, outcome, code, r) ==
  LET q == st.reqs[i] IN
  IF outcome # "rpcError" \/ q.attempt >= maxAttempts - 1
  THEN [st EXCEPT !.reqs[i].phase = "failed", !.reqs[i].err = outcome,
                  !.reqs[i].errs = Append(@, outcome)]
  ELSE [st EXCEPT !.reqs[i].phase = "sleeping",
                  !.reqs[i].errs = Append(@, outcome),
                  !.reqs[i].delays = Append(@, computeBackoffMs(q.attempt, r))]

\* a retry loop without the attempt limit
requestCatchNoLimit(st, i, outcome, code, r) ==
  LET q == st.reqs[i] IN
  IF ~IsOverloaded(outcome, code)
  THEN [st EXCEPT !.reqs[i].phase = "failed",
                  !.reqs[i].err = outcome,
                  !.reqs[i].errs = Append(@, outcome)]
  ELSE [st EXCEPT !.reqs[i].phase = "sleeping",
                  !.reqs[i].errs = Append(@, "overloaded"),
                  !.reqs[i].delays = Append(@, computeBackoffMs(q.attempt, r))]

requestCatch(st, i, outcome, code, r) ==
  LET q == st.reqs[i] IN
  IF ~IsOverloaded(outcome, code) \/ q.attempt >= maxAttempts - 1
  THEN [st EXCEPT !.reqs[i].phase = "failed",
                  !.reqs[i].err = IF IsOverloaded(outcome, code) THEN "overloaded" ELSE outcome,
                  !.reqs[i].errs = Append(@, IF IsOverloaded(outcome, code) THEN "overloaded" ELSE outcome)]
  ELSE [st EXCEPT !.reqs[i].phase = "sleeping",
                  !.reqs[i].errs = Append(@, "overloaded"),
                  !.reqs[i].delays = Append(@, computeBackoffMs(q.attempt, r))]

\* sendRaw: throws unless the held socket is OPEN
canSend(st) == st.ws # 0 /\ st.readyState[st.ws] = "open"

Frame(st, kind, id, method) == [sock |-> st.ws, kind |-> kind, id |-> id, method |-> method]

\* connect(): after `await requestWithId(0, 'initialize')`
connectAfterInitialize(st, outcome) ==
  IF outcome = "resolved" /\ canSend(st)
  THEN [st EXCEPT !.sent = Append(@, Frame(st, "notification", NumId(0), "initialized")),
                  !.connectPc = "done"]
  ELSE [st EXCEPT !.connectPc = "failed"]

\* resolve()/reject() of the promise of call c; a settled promise ignores it
settle(st, c, outcome, code, r) ==
  LET call == st.calls[c]
      st1 == [st EXCEPT !.calls[c].settles = @ + 1,
                        !.calls[c].outcome = IF @ = "pending" THEN outcome ELSE @,
                        !.calls[c].code = IF call.outcome = "pending" THEN code ELSE @]
  IN IF call.outcome # "pending" THEN st1
     ELSE IF call.req = 0 THEN connectAfterInitialize(st1, outcome)
     ELSE IF outcome = "resolved" THEN [st1 EXCEPT !.reqs[call.req].phase = "resolved"]
     ELSE requestCatch(st1, call.req, outcome, code, r)

\* the loop of failAllPending over the entries: pending.reject(reason)
RECURSIVE rejectAll(_, _, _)
rejectAll(st, cs, reason) ==
  IF cs = {} THEN st
  ELSE LET c == CHOOSE x \in cs : \A y \in cs : x <= y
           st1 == [st EXCEPT !.calls[c].removals = @ + 1]
       IN rejectAll(settle(st1, c, reason, 0, 0), cs \ {c}, reason)

PendingCalls(st) == {e.call : e \in st.pending}

\* failAllPending(reason)
failAllPendingKeepTimers(st, reason) ==
  [rejectAll(st, PendingCalls(st), reason) EXCEPT !.pending = EmptyMap]

failAllPending(st, reason) ==
  LET st1 == [st EXCEPT !.timers = @ \ {e.timeoutId : e \in st.pending}]
  IN [rejectAll(st1, PendingCalls(st), reason) EXCEPT !.pending = EmptyMap]

\* close(); closeCalled takes the socket the client holds and the one its
\* connect() is still opening
close(st) ==
  LET st1 == failAllPending([st EXCEPT !.closedByClient = TRUE], "closedByClient")
      st2 == IF st.connectPc = "opening"
             THEN [st1 EXCEPT !.closeCalled = @ \cup {st.connectSock}] ELSE st1
  IN IF st2.ws # 0
     THEN [st2 EXCEPT !.readyState[st.ws] = IF @ = "open" THEN "closing" ELSE @,
                      !.closeCalled = @ \cup {st.ws},
                      !.ws = 0]
     ELSE st2


requestWithIdNoCleanup(st, id, method, owner) ==
  LET key == requestKey(id)
      c == Len(st.calls) + 1
      call == [key |-> key, id |-> id, method |-> method, req |-> owner,
               outcome |-> "pending", code |-> 0, settles |-> 0, removals |-> 0,
               sock |-> st.ws]
      st1 == [st EXCEPT !.calls = Append(@, call),
                        !.timers = @ \cup {c},
                        !.pending = MapSet(@, [key |-> key, call |-> c, timeoutId |-> c])]
  IN IF canSend(st1)
     THEN [st1 EXCEPT !.sent = Append(@, Frame(st1, "request", id, method))]
     ELSE settle(st1, c, "notConnected", 0, 0)

\* requestWithId(id, method): owner is the request() invocation awaiting it,
\* 0 for connect()'s initialize
requestWithId(st, id, method, owner) ==
  LET key == requestKey(id)
      c == Len(st.calls) + 1
      call == [key |-> key, id |-> id, method |-> method, req |-> owner,
               outcome |-> "pending", code |-> 0, settles |-> 0, removals |-> 0,
               sock |-> st.ws]
      st1 == [st EXCEPT !.calls = Append(@, call),
                        !.timers = @ \cup {c},
                        !.pending = MapSet(@, [key |-> key, call |-> c, timeoutId |-> c])]
  IN IF canSend(st1)
     THEN [st1 EXCEPT !.sent = Append(@, Frame(st1, "request", id, method))]
     ELSE LET p == MapGet(st1.pending, key)
              st2 == [st1 EXCEPT !.timers = @ \ {p.timeoutId},
                                 !.pending = MapDelete(@, key),
                                 !.calls[p.call].removals = @ + 1]
          IN settle(st2, c, "notConnected", 0, 0)

\* request(): one pass of the loop body (id = nextId; nextId += 1; requestWithId)
requestAttempt(st, i) ==
  LET id == NumId(st.nextId)
      st1 == [st EXCEPT !.nextId = @ + 1,
                        !.reqs[i].phase = "awaiting",
                        !.reqs[i].ids = Append(@, id)]
  IN requestWithId(st1, id, st.reqs[i].method, i)

\* request(method): entry
request(st, method) ==
  LET i == Len(st.reqs) + 1
      q == [method |-> method, attempt |-> 0, phase |-> "awaiting", err |-> "none",
            errs |-> <<>>, delays |-> <<>>, ids |-> <<>>]
  IN requestAttempt([st EXCEPT !.reqs = Append(@, q)], i)

\* request(): sleep(computeBackoffMs(attempt)) is over, next pass of the loop
requestWake(st, i) ==
  requestAttempt([st EXCEPT !.reqs[i].attempt = @ + 1], i)

\* error.code of an inbound error object (a missing or malformed code is -32000)
ErrorCode(err) ==
  CASE err = "overloaded" -> OVERLOADED_ERROR_CODE
    [] OTHER -> DEFAULT_RPC_ERROR_CODE

\* handleIncoming(raw)
handleIncomingFifo(st, msg, r) ==
  IF (msg.hasResult \/ msg.hasError) /\ msg.hasId /\ st.pending # {}
  THEN LET c == CHOOSE x \in PendingCalls(st) : \A y \in PendingCalls(st) : x <= y
           key == st.calls[c].key
           st1 == [st EXCEPT !.pending = MapDelete(@, key),
                             !.timers = @ \ {c}, !.calls[c].removals = @ + 1]
       IN IF msg.hasError THEN settle(st1, c, "rpcError", ErrorCode(msg.err), r)
          ELSE settle(st1, c, "resolved", 0, r)
  ELSE st

handleIncomingLateSettles(st, msg, r) ==
  IF (msg.hasResult \/ msg.hasError) /\ msg.hasId
  THEN LET key == requestKey(msg.id)
           cs == {c \in DOMAIN st.calls : st.calls[c].key = key}
       IN IF cs = {} THEN st
          ELSE LET c == CHOOSE x \in cs : \A y \in cs : x >= y
                   st1 == [st EXCEPT !.pending = MapDelete(@, key), !.timers = @ \ {c}]
               IN [st1 EXCEPT !.calls[c].outcome = "resolved", !.calls[c].settles = @ + 1]
  ELSE st

handleIncomingNotifiesRequests(st, msg, r) ==
  IF msg.garbage THEN st
  ELSE IF msg.hasResult \/ msg.hasError
  THEN IF ~msg.hasId THEN st
       ELSE LET key == requestKey(msg.id) IN
            IF key \notin Keys(st.pending) THEN st
            ELSE LET p == MapGet(st.pending, key)
                     st1 == [st EXCEPT !.pending = MapDelete(@, key),
                                       !.timers = @ \ {p.timeoutId},
                                       !.calls[p.call].removals = @ + 1]
                 IN IF msg.hasError
                    THEN settle(st1, p.call, "rpcError", ErrorCode(msg.err), r)
                    ELSE settle(st1, p.call, "resolved", 0, r)
  ELSE IF ~msg.hasMethod THEN st
  ELSE IF msg.hasId
  THEN [st EXCEPT !.delivered = @ \o
          <<[kind |-> "serverRequest", method |-> msg.method, id |-> msg.id],
            [kind |-> "notification", method |-> msg.method, id |-> NumId(0)]>>]
  ELSE [st EXCEPT !.delivered = Append(@, [kind |-> "notification", method |-> msg.method, id |-> NumId(0)])]

handleIncoming(st, msg, r) ==
  IF msg.garbage THEN st
  ELSE IF msg.hasResult \/ msg.hasError
  THEN IF ~msg.hasId THEN st
       ELSE LET key == requestKey(msg.id) IN
            IF key \notin Keys(st.pending) THEN st
            ELSE LET p == MapGet(st.pending, key)
                     st1 == [st EXCEPT !.pending = MapDelete(@, key),
                                       !.timers = @ \ {p.timeoutId},
                                       !.calls[p.call].removals = @ + 1]
                 IN IF msg.hasError
                    THEN settle(st1, p.call, "rpcError", ErrorCode(msg.err), r)
                    ELSE settle(st1, p.call, "resolved", 0, r)
  ELSE IF ~msg.hasMethod THEN st
  ELSE IF msg.hasId
  THEN [st EXCEPT !.delivered = Append(@, [kind |-> "serverRequest", method |-> msg.method, id |-> msg.id])]
  ELSE [st EXCEPT !.delivered = Append(@, [kind |-> "notification", method |-> msg.method, id |-> NumId(0)])]

\* the socket's 'close' listener installed by connect()
closeListener(st, s) ==
  LET unexpected == ~st.closedByClient
      st1 == failAllPending(st, "connectionClosed")
  IN [st1 EXCEPT !.ws = 0,
                 !.closeLog = Append(@, [sock |-> s, unexpected |-> unexpected])]

\* the timeout callback armed by requestWithId
requestTimeoutNoDelete(st, c) ==
  settle([st EXCEPT !.timers = @ \ {c}], c, "timeout", 0, 0)

requestTimeout(st, c) ==
  LET key == st.calls[c].key
      st1 == IF key \in Keys(st.pending)
             THEN [st EXCEPT !.calls[MapGet(st.pending, key).call].removals = @ + 1,
                             !.pending = MapDelete(@, key)]
             ELSE st
  IN settle([st1 EXCEPT !.timers = @ \ {c}], c, "timeout", 0, 0)

\* connect(url) up to `await new Promise(... new WebSocket(url) ...)`
connectBegin(st) ==
  LET st1 == [close(st) EXCEPT !.closedByClient = FALSE]
      s == CHOOSE x \in Sockets : st1.readyState[x] = "unused" /\
                                   \A y \in Sockets : st1.readyState[y] = "unused" => x <= y
  IN [st1 EXCEPT !.readyState[s] = "connecting", !.connectPc = "opening", !.connectSock = s]

\* connect(url) from the socket's 'open' event to `await requestWithId(0, 'initialize')`
connectOnOpen(st) ==
  LET s == st.connectSock
      st1 == [st EXCEPT !.readyState[s] = "open", !.ws = s, !.listeners = @ \cup {s},
                        !.connectPc = "initializing"]
  IN requestWithId(st1, NumId(0), "initialize", 0)

\* connect(url): the socket's 'error' event before it opened
connectOnError(st) ==
  [st EXCEPT !.readyState[st.connectSock] = "closed", !.connectPc = "failed"]


\* ------------------------------------------------------------------------
\* Inbound frames the peer can produce
\* ------------------------------------------------------------------------
Methods == {"item/agentMessage/delta", "turn/completed"}
ErrPayloads == {"overloaded", "malformed"}

InboundIds(st) == {NumId(n) : n \in 0..st.nextId} \cup {StrId(n) : n \in 0..(st.nextId - 1)}

Garbage == [garbage |-> TRUE, hasResult |-> FALSE, hasError |-> FALSE, hasId |-> FALSE,
            hasMethod |-> FALSE, id |-> NumId(0), err |-> "none", method |-> "none"]

ResponseMsg(id, hasId) ==
  [garbage |-> FALSE, hasResult |-> TRUE, hasError |-> FALSE, hasId |-> hasId,
   hasMethod |-> FALSE, id |-> id, err |-> "none", method |-> "none"]

ErrorMsg(id, err) ==
  [garbage |-> FALSE, hasResult |-> FALSE, hasError |-> TRUE, hasId |-> TRUE,
   hasMethod |-> FALSE, id |-> id, err |-> err, method |-> "none"]

MethodMsg(m, hasId, id) ==
  [garbage |-> FALSE, hasResult |-> FALSE, hasError |-> FALSE, hasId |-> hasId,
   hasMethod |-> TRUE, id |-> id, err |-> "none", method |-> m]

NoMethodMsg ==
  [garbage |-> FALSE, hasResult |-> FALSE, hasError |-> FALSE, hasId |-> TRUE,
   hasMethod |-> FALSE, id |-> NumId(0), err |-> "none", method |-> "none"]

\* responses, and frames handleIncoming ignores
ResponseMsgs(st) ==
  {Garbage, NoMethodMsg, ResponseMsg(NumId(0), FALSE)}
  \cup {ResponseMsg(id, TRUE) : id \in InboundIds(st)}
  \cup {ErrorMsg(id, e) : id \in InboundIds(st), e \in ErrPayloads}

\* notifications and server-initiated requests
MethodMsgs ==
  {MethodMsg(m, FALSE, NumId(0)) : m \in Methods}
  \cup {MethodMsg(m, TRUE, NumId(1)) : m \in Methods}

InvokesHandler(msg) ==
  ~msg.garbage /\ ~msg.hasResult /\ ~msg.hasError /\ msg.hasMethod

\* Math.random() is drawn only by the backoff after an overloaded error
RandomDraws(msg) == IF msg.hasError /\ msg.err = "overloaded" THEN RandPermille ELSE {0}

InboundClass(msg) ==
  IF InvokesHandler(msg) THEN "method"
  ELSE IF (msg.hasResult \/ msg.hasError) /\ msg.hasId THEN "response"
  ELSE "ignored"

Event(op, key, call, cs) == [op |-> op, key |-> key, call |-> call, cs |-> cs]
NoEvent == Event("none", <<"none", 0>>, 0, {})

\* ------------------------------------------------------------------------
\* Text: a string is the sequence of its characters; "^" stands for a control
\* character and " " for white space
\* ------------------------------------------------------------------------
NoResponseText == <<"(No response)">>

\* a || b on strings
Or(a, b) == IF a # <<>> THEN a ELSE b

RECURSIVE replaceControls(_)
replaceControls(t) ==
  IF t = <<>> THEN <<>>
  ELSE <<IF Head(t) = "^" THEN " " ELSE Head(t)>> \o replaceControls(Tail(t))

RECURSIVE trimStart(_)
trimStart(t) == IF t # <<>> /\ Head(t) = " " THEN trimStart(Tail(t)) ELSE t

RECURSIVE trimEnd(_)
trimEnd(t) == IF t # <<>> /\ t[Len(t)] = " " THEN trimEnd(SubSeq(t, 1, Len(t) - 1)) ELSE t

sanitizeDisplayText(text) == trimEnd(trimStart(replaceControls(text)))

\* the initial value of the `state` object
InitState ==
  [eventLoopRegistered |-> FALSE, screen |-> "list", viewState |-> "connecting",
   client |-> FALSE, activeThreadId |-> 0, activeTurnId |-> 0,
   conversationHistory |-> <<>>, currentPrompt |-> <<>>, currentResponse |-> <<>>,
   streamingText |-> <<>>, pendingDelta |-> <<>>, lastAgentMessageSnapshot |-> <<>>,
   turnCompletedPending |-> FALSE, streamIntervalId |-> FALSE,
   thinkingIntervalId |-> FALSE, micOpen |-> FALSE,
   pcmAudioBytes |-> 0, busy |-> FALSE, lastStreamEventAt |-> 0]

\* serverTurn: the app-server runs a turn for this connection; serverDeltas:
\* the deltas it has sent for it; presses: uses of the page's buttons
InitObs ==
  [turnDeltas |-> <<>>, serverTurn |-> FALSE, serverDeltas |-> 0, presses |-> 0,
   errorDetail |-> <<>>]

InitCtl ==
  /\ state = InitState
  /\ flows = <<>>
  /\ obs = InitObs

\* ------------------------------------------------------------------------
\* SpecRpc: the client driven by an arbitrary owner, peer and clock
\* ------------------------------------------------------------------------
InitClient ==
  /\ ws = 0
  /\ readyState = [s \in Sockets |-> "unused"]
  /\ listeners = {}
  /\ closedByClient = FALSE
  /\ nextId = 1
  /\ pending = EmptyMap
  /\ timers = {}
  /\ calls = <<>>
  /\ reqs = <<>>
  /\ sent = <<>>
  /\ delivered = <<>>
  /\ closeLog = <<>>
  /\ closeCalled = {}
  /\ connectPc = "idle"
  /\ connectSock = 0
  /\ last = NoEvent

InitRpc == InitCtl /\ InitClient

\* what a close leaves to observe: the calls it found outstanding
CloseEvent(cs) == IF cs = {} THEN NoEvent ELSE Event("close", <<"none", 0>>, 0, cs)

\* the owner calls connect(url); a client runs one connect() at a time
Connect(reconnects) ==
  /\ connectPc \notin {"opening", "initializing"}
  /\ reconnects \/ connectPc = "idle"
  /\ \E s \in Sockets : readyState[s] = "unused"
  /\ SetClient(connectBegin(Cur))
  /\ last' = CloseEvent(PendingCalls(Cur))
  /\ UNCHANGED ctlVars

\* the socket under construction opens
SocketOpen(maxCalls) ==
  /\ connectPc = "opening"
  /\ Len(calls) < maxCalls
  /\ SetClient(connectOnOpen(Cur))
  /\ last' = NoEvent
  /\ UNCHANGED ctlVars

\* the socket under construction fails to open
SocketError ==
  /\ connectPc = "opening"
  /\ SetClient(connectOnError(Cur))
  /\ last' = NoEvent
  /\ UNCHANGED ctlVars

\* the owner calls request(method)
Request(maxCalls, maxReqs) ==
  /\ Len(reqs) < maxReqs
  /\ Len(calls) < maxCalls
  /\ SetClient(request(Cur, "thread/list"))
  /\ last' = NoEvent
  /\ UNCHANGED ctlVars

\* a backoff sleep of request() is over
RetryWake(maxCalls) ==
  \E i \in DOMAIN reqs :
    /\ reqs[i].phase = "sleeping"
    /\ Len(calls) < maxCalls
    /\ SetClient(requestWake(Cur, i))
    /\ last' = NoEvent
    /\ UNCHANGED ctlVars

\* the 45 s timer of a call fires
Timeout ==
  \E c \in timers :
    /\ SetClient(requestTimeout(Cur, c))
    /\ last' = NoEvent
    /\ UNCHANGED ctlVars

\* a frame arrives on an OPEN socket that carries the message listener
Incoming ==
  \E s \in listeners : \E msg \in ResponseMsgs(Cur) : \E r \in RandomDraws(msg) :
    /\ readyState[s] = "open"
    /\ SetClient(handleIncoming(Cur, msg, r))
    /\ last' = IF InboundClass(msg) = "response"
               THEN Event("response", requestKey(msg.id),
                          IF requestKey(msg.id) \in Keys(pending)
                          THEN MapGet(pending, requestKey(msg.id)).call ELSE 0, {})
               ELSE NoEvent
    /\ UNCHANGED ctlVars

\* the peer starts the closing handshake: readyState leaves OPEN
PeerClosing ==
  \E s \in Sockets :
    /\ readyState[s] = "open"
    /\ readyState' = [readyState EXCEPT ![s] = "closing"]
    /\ last' = NoEvent
    /\ UNCHANGED <<ws, listeners, closedByClient, nextId, pending, timers, calls, reqs,
                   sent, delivered, closeLog, closeCalled, connectPc, connectSock>>
    /\ UNCHANGED ctlVars

\* a socket reaches CLOSED and its 'close' event is dispatched
SocketClosed ==
  \E s \in Sockets :
    /\ readyState[s] \in {"open", "closing"}
    /\ LET st1 == [Cur EXCEPT !.readyState[s] = "closed"] IN
       SetClient(IF s \in listeners THEN closeListener(st1, s) ELSE st1)
    /\ last' = CloseEvent(PendingCalls(Cur))
    /\ UNCHANGED ctlVars

\* the owner calls close()
Close ==
  /\ SetClient(close(Cur))
  /\ last' = CloseEvent(PendingCalls(Cur))
  /\ UNCHANGED ctlVars

RpcConnect == Connect(TRUE)
RpcSocketOpen == SocketOpen(MaxCalls)
RpcSocketError == SocketError
RpcRequest == Request(MaxCalls, MaxReqs)
RpcRetryWake == RetryWake(MaxCalls)
RpcTimeout == Timeout
RpcIncoming == Incoming
RpcPeerClosing == PeerClosing
RpcSocketClosed == SocketClosed
RpcClose == Close

NextRpc ==
  \/ RpcConnect
  \/ RpcSocketOpen
  \/ RpcSocketError
  \/ RpcRequest
  \/ RpcRetryWake
  \/ RpcTimeout
  \/ RpcIncoming
  \/ RpcPeerClosing
  \/ RpcSocketClosed
  \/ RpcClose

SpecRpc == InitRpc /\ [][NextRpc]_vars

\* ------------------------------------------------------------------------
\* SpecRetry: the same client when its owner connects once and then issues
\* MaxRetryReqs calls through request(); the peer and the clock stay arbitrary.
\* Every pass of the retry loop fits: 1 + maxAttempts * MaxRetryReqs calls.
\* ------------------------------------------------------------------------
RetryCalls == 1 + maxAttempts * MaxRetryReqs

RetryConnect == Connect(FALSE)
RetrySocketOpen == SocketOpen(RetryCalls)
RetrySocketError == SocketError
RetryRequest == Request(RetryCalls, MaxRetryReqs)
RetryRetryWake == RetryWake(RetryCalls)
RetryTimeout == Timeout
RetryIncoming == Incoming
RetryPeerClosing == PeerClosing
RetrySocketClosed == SocketClosed
RetryClose == Close

NextRetry ==
  \/ RetryConnect
  \/ RetrySocketOpen
  \/ RetrySocketError
  \/ RetryRequest
  \/ RetryRetryWake
  \/ RetryTimeout
  \/ RetryIncoming
  \/ RetryPeerClosing
  \/ RetrySocketClosed
  \/ RetryClose

SpecRetry == InitRpc /\ [][NextRetry]_vars


\* ------------------------------------------------------------------------
\* Claims about the RPC client
\* ------------------------------------------------------------------------
Settled(c) == calls[c].outcome # "pending"
HasEntry(c) == \E e \in pending : e.call = c
ClosedOutcomes == {"connectionClosed", "closedByClient"}

\* C1: every call sent by requestWithId gets at most one resolve/reject, its
\* PendingRequest is removed from the pending table exactly once, and once it
\* has its outcome no timeout timer of it is left armed; while it has none, its
\* entry and its timer are in place.
C1_OneOutcomePerCall ==
  \A c \in DOMAIN calls :
    /\ calls[c].settles <= 1
    /\ calls[c].removals <= 1
    /\ Settled(c) => calls[c].removals = 1 /\ ~HasEntry(c) /\ c \notin timers
    /\ ~Settled(c) => /\ calls[c].removals = 0
                      /\ [key |-> calls[c].key, call |-> c, timeoutId |-> c] \in pending
                      /\ c \in timers

\* C1 witness: three calls ended by a Response, by the timeout and by a close
C1_Witness ==
  /\ \E c \in DOMAIN calls : calls[c].outcome = "resolved"
  /\ \E c \in DOMAIN calls : calls[c].outcome = "timeout"
  /\ \E c \in DOMAIN calls : calls[c].outcome = "connectionClosed"

\* C2: a Response with id k changes the call that is outstanding under
\* requestKey(k), which gets the Response's outcome, and no other call.
C2_ResponseSettlesItsCall ==
  [][Incoming /\ last'.op = "response" =>
       \A c \in DOMAIN calls :
         IF calls[c].key = last'.key /\ ~Settled(c)
         THEN calls'[c].outcome \in {"resolved", "rpcError"}
         ELSE calls'[c] = calls[c]]_vars

\* C2 witness: the later of two outstanding calls was answered first
C2_Witness ==
  \E c1, c2 \in DOMAIN calls :
    /\ c1 < c2
    /\ calls[c1].req # 0 /\ calls[c2].req # 0
    /\ calls[c1].outcome = "pending"
    /\ calls[c2].outcome = "resolved"
    /\ last = Event("response", calls[c2].key, c2, {})

\* C3: the timer of a call rejects it with the timeout error and removes
\* its PendingRequest; a Response whose id is not in the pending table (a late
\* one among them) changes nothing of the client.
C3_TimeoutThenLateResponseDropped ==
  [][/\ Timeout =>
          \A c \in timers \ timers' :
            /\ calls[c].outcome = "pending"
            /\ calls'[c].outcome = "timeout"
            /\ calls[c].key \notin Keys(pending')
     /\ (Incoming /\ last'.op = "response" /\ last'.key \notin Keys(pending)) =>
          UNCHANGED rpcVars]_vars

\* C3 witness: a Response arrived for the id of a call that had timed out
C3_Witness ==
  /\ last.op = "response"
  /\ last.call = 0
  /\ \E c \in DOMAIN calls : calls[c].key = last.key /\ calls[c].outcome = "timeout"

\* C4: a close (the socket's close event, close(), or the close() that
\* connect() starts with) rejects every call outstanding at that moment with
\* a connection-closed error, cancels its timer and leaves the table empty.
C4_CloseFailsAllPending ==
  [][(SocketClosed \/ Close \/ Connect(TRUE)) =>
       /\ pending' = EmptyMap
       /\ \A c \in PendingCalls(Cur) :
            /\ calls'[c].outcome \in ClosedOutcomes
            /\ calls'[c].settles = 1
            /\ c \notin timers']_vars

\* C4 witness: one close found two calls outstanding
C4_Witness ==
  /\ last.op = "close"
  /\ Cardinality(last.cs) >= 2
  /\ \A c \in last.cs : calls[c].outcome = "connectionClosed"

ReqCalls(i) == {c \in DOMAIN calls : calls[c].req = i}

\* C6: a request() that got the overloaded error twice and then a result
\* has resolved after exactly 2 backoff waits and 3 Requests, the wait before
\* retry n within [BASE * 2^n * 0.8, BASE * 2^n * 1.2].
C6_TwoRetriesThenSuccess ==
  \A i \in DOMAIN reqs :
    (reqs[i].phase = "resolved" /\ reqs[i].errs = <<"overloaded", "overloaded">>) =>
      /\ Len(reqs[i].delays) = 2
      /\ Cardinality(ReqCalls(i)) = 3
      /\ \A n \in 0..1 :
           /\ 10 * reqs[i].delays[n + 1] >= BASE_BACKOFF_MS * Pow2(n) * 8
           /\ 10 * reqs[i].delays[n + 1] <= BASE_BACKOFF_MS * Pow2(n) * 12

\* C6 witness: such a request(), its second wait at the upper end of the range
C6_Witness ==
  \E i \in DOMAIN reqs :
    /\ reqs[i].phase = "resolved"
    /\ reqs[i].errs = <<"overloaded", "overloaded">>
    /\ reqs[i].delays[2] > 2 * BASE_BACKOFF_MS

\* C7: a failure of an attempt that is not the overloaded RPC error is the
\* last thing request() does: it has failed with that error, no Request was
\* sent after it and no backoff wait followed it.
C7_OnlyOverloadedRetries ==
  \A i \in DOMAIN reqs :
    \A k \in 1..Len(reqs[i].errs) :
      reqs[i].errs[k] # "overloaded" =>
        /\ k = Len(reqs[i].errs)
        /\ reqs[i].phase = "failed"
        /\ reqs[i].err = reqs[i].errs[k]
        /\ Cardinality(ReqCalls(i)) = k
        /\ Len(reqs[i].delays) = k - 1
        /\ \A c \in ReqCalls(i) : Settled(c)

\* C7 witness: request() failed on an RPC error with another code, after one retry
C7_Witness ==
  \E i \in DOMAIN reqs :
    /\ reqs[i].phase = "failed"
    /\ reqs[i].errs = <<"overloaded", "rpcError">>


\* ------------------------------------------------------------------------
\* The Codex controller. A world w holds the client (w.c), the `state`
\* object (w.s), the parked async activations (w.flows) and the observations.
\* ------------------------------------------------------------------------
MIN_PCM_AUDIO_BYTES == 200
MAX_HISTORY_TURNS == 10
STREAM_CHARS_PER_TICK == 8

World == [c |-> Cur, s |-> state, flows |-> flows, obs |-> obs]

SetWorld(w) ==
  /\ SetClient(w.c)
  /\ state' = w.s
  /\ flows' = w.flows
  /\ obs' = w.obs
  /\ last' = NoEvent

\* an activation: who called it, the await it is parked at, the request() it awaits
Flow(caller, pc, req, then) == [caller |-> caller, pc |-> pc, req |-> req, then |-> then]

park(w, f, pc) == [w EXCEPT !.flows = Append(@, [f EXCEPT !.pc = pc, !.req = 0])]

\* `await state.client.request(method)`
awaitRequest(w, f, method, pc) ==
  LET i == Len(w.c.reqs) + 1
      turnSent == method = "turn/start" /\ canSend(w.c)
  IN [w EXCEPT !.c = request(w.c, method),
               !.flows = Append(@, [f EXCEPT !.pc = pc, !.req = i]),
               !.obs.serverTurn = IF turnSent THEN TRUE ELSE @,
               !.obs.serverDeltas = IF turnSent THEN 0 ELSE @]

\* `void refreshThreadList()`: nobody awaits the thread/list request
voidRefreshThreadList(w) ==
  IF w.s.client THEN [w EXCEPT !.c = request(w.c, "thread/list")] ELSE w

setViewState(w, next) == [w EXCEPT !.s.viewState = next]

stopStreamingDrain(w) == [w EXCEPT !.s.streamIntervalId = FALSE]

stopThinkingAnimation(w) == [w EXCEPT !.s.thinkingIntervalId = FALSE]

codexStartThinkingAnimation(w) == [w EXCEPT !.s.thinkingIntervalId = TRUE]

\* the interval callback of startThinkingAnimation
thinkingTick(w) == IF w.s.viewState # "waiting" THEN stopThinkingAnimation(w) ELSE w

ensureStreamingDrainLoopNotArmed(w) == w

ensureStreamingDrainLoop(w) == [w EXCEPT !.s.streamIntervalId = TRUE]

resetTransientTurnState(w) ==
  [w EXCEPT !.s.streamIntervalId = FALSE, !.s.thinkingIntervalId = FALSE,
            !.s.currentPrompt = <<>>, !.s.currentResponse = <<>>,
            !.s.streamingText = <<>>, !.s.pendingDelta = <<>>,
            !.s.lastAgentMessageSnapshot = <<>>, !.s.turnCompletedPending = FALSE,
            !.s.activeTurnId = 0, !.s.lastStreamEventAt = 0]

appendConversationTurnDropNewest(history, prompt, response) ==
  LET safePrompt == sanitizeDisplayText(prompt)
      safeResponse == sanitizeDisplayText(response)
      pushed == Append(history, [prompt |-> safePrompt, response |-> safeResponse])
  IN IF safePrompt = <<>> \/ safeResponse = <<>> THEN history
     ELSE IF Len(pushed) > MAX_HISTORY_TURNS
     THEN SubSeq(pushed, 1, MAX_HISTORY_TURNS)
     ELSE pushed

appendConversationTurn(history, prompt, response) ==
  LET safePrompt == sanitizeDisplayText(prompt)
      safeResponse == sanitizeDisplayText(response)
      pushed == Append(history, [prompt |-> safePrompt, response |-> safeResponse])
  IN IF safePrompt = <<>> \/ safeResponse = <<>> THEN history
     ELSE IF Len(pushed) > MAX_HISTORY_TURNS
     THEN SubSeq(pushed, Len(pushed) - MAX_HISTORY_TURNS + 1, Len(pushed))
     ELSE pushed

finalizeCompletedTurnKeepsTurnId(w) ==
  LET s == w.s
      response == sanitizeDisplayText(
        Or(s.streamingText, Or(s.currentResponse, Or(s.lastAgentMessageSnapshot, NoResponseText))))
      history == IF s.currentPrompt # <<>> /\ response # <<>>
                 THEN appendConversationTurn(s.conversationHistory, s.currentPrompt, response)
                 ELSE s.conversationHistory
      w1 == [w EXCEPT !.s.conversationHistory = history,
                      !.s.streamIntervalId = FALSE, !.s.thinkingIntervalId = FALSE,
                      !.s.currentPrompt = <<>>, !.s.currentResponse = <<>>,
                      !.s.streamingText = <<>>, !.s.pendingDelta = <<>>,
                      !.s.lastAgentMessageSnapshot = <<>>,
                      !.s.turnCompletedPending = FALSE,
                      !.s.viewState = "displaying"]
  IN park(w1, Flow("void", "finRender", 0, ""), "finRender")

\* finalizeCompletedTurn up to its `await renderPage`; the rest is parked
finalizeCompletedTurn(w) ==
  LET s == w.s
      response == sanitizeDisplayText(
        Or(s.streamingText, Or(s.currentResponse, Or(s.lastAgentMessageSnapshot, NoResponseText))))
      history == IF s.currentPrompt # <<>> /\ response # <<>>
                 THEN appendConversationTurn(s.conversationHistory, s.currentPrompt, response)
                 ELSE s.conversationHistory
      w1 == [w EXCEPT !.s.conversationHistory = history,
                      !.s.streamIntervalId = FALSE, !.s.thinkingIntervalId = FALSE,
                      !.s.currentPrompt = <<>>, !.s.currentResponse = <<>>,
                      !.s.streamingText = <<>>, !.s.pendingDelta = <<>>,
                      !.s.lastAgentMessageSnapshot = <<>>,
                      !.s.turnCompletedPending = FALSE, !.s.activeTurnId = 0,
                      !.s.viewState = "displaying"]
  IN park(w1, Flow("void", "finRender", 0, ""), "finRender")

\* a drain loop that finalizes a completed turn before its buffer is empty
streamTickEagerFinal(w, stalled) ==
  LET s == w.s IN
  IF s.viewState \in {"waiting", "streaming"} /\ s.lastStreamEventAt > 0 /\ stalled
  THEN LET partial == sanitizeDisplayText(
             Or(s.pendingDelta, Or(s.streamingText,
                Or(s.currentResponse, s.lastAgentMessageSnapshot))))
           w1 == [w EXCEPT !.s.lastStreamEventAt = 0, !.s.thinkingIntervalId = FALSE]
       IN IF partial # <<>>
          THEN LET w2 == [w1 EXCEPT !.s.turnCompletedPending = TRUE]
               IN IF s.pendingDelta = <<>> /\ s.streamingText = <<>>
                  THEN finalizeCompletedTurn(w2) ELSE w2
          ELSE [resetTransientTurnState(w1) EXCEPT !.s.viewState = "error", !.s.screen = "root"]
  ELSE IF s.turnCompletedPending THEN finalizeCompletedTurn(w)
  ELSE IF s.pendingDelta # <<>>
  THEN LET n == IF Len(s.pendingDelta) < STREAM_CHARS_PER_TICK
                THEN Len(s.pendingDelta) ELSE STREAM_CHARS_PER_TICK
           chunk == SubSeq(s.pendingDelta, 1, n)
       IN [w EXCEPT !.s.viewState = IF @ = "waiting" THEN "streaming" ELSE @,
                    !.s.thinkingIntervalId = FALSE,
                    !.s.pendingDelta = SubSeq(@, n + 1, Len(@)),
                    !.s.streamingText = @ \o chunk,
                    !.s.currentResponse = s.streamingText \o chunk]
  ELSE IF s.viewState \notin {"streaming", "waiting"} THEN stopStreamingDrain(w)
  ELSE w

streamTickLosesChar(w, stalled) ==
  LET s == w.s IN
  IF s.viewState \in {"waiting", "streaming"} /\ s.lastStreamEventAt > 0 /\ stalled
  THEN LET partial == sanitizeDisplayText(
             Or(s.pendingDelta, Or(s.streamingText,
                Or(s.currentResponse, s.lastAgentMessageSnapshot))))
           w1 == [w EXCEPT !.s.lastStreamEventAt = 0, !.s.thinkingIntervalId = FALSE]
       IN IF partial # <<>>
          THEN LET w2 == [w1 EXCEPT !.s.turnCompletedPending = TRUE]
               IN IF s.pendingDelta = <<>> /\ s.streamingText = <<>>
                  THEN finalizeCompletedTurn(w2) ELSE w2
          ELSE [resetTransientTurnState(w1) EXCEPT !.s.viewState = "error", !.s.screen = "root"]
  ELSE IF s.pendingDelta # <<>>
  THEN LET n == IF Len(s.pendingDelta) < STREAM_CHARS_PER_TICK
                THEN Len(s.pendingDelta) ELSE STREAM_CHARS_PER_TICK
           chunk == SubSeq(s.pendingDelta, 1, n)
       IN [w EXCEPT !.s.viewState = IF @ = "waiting" THEN "streaming" ELSE @,
                    !.s.thinkingIntervalId = FALSE,
                    !.s.pendingDelta = SubSeq(@, n + 2, Len(@)),
                    !.s.streamingText = @ \o chunk,
                    !.s.currentResponse = s.streamingText \o chunk]
  ELSE IF s.turnCompletedPending THEN finalizeCompletedTurn(w)
  ELSE IF s.viewState \notin {"streaming", "waiting"} THEN stopStreamingDrain(w)
  ELSE w

\* the interval callback of ensureStreamingDrainLoop; stalled is
\* Date.now() - lastStreamEventAt > STREAM_STALL_TIMEOUT_MS
streamTick(w, stalled) ==
  LET s == w.s IN
  IF s.viewState \in {"waiting", "streaming"} /\ s.lastStreamEventAt > 0 /\ stalled
  THEN LET partial == sanitizeDisplayText(
             Or(s.pendingDelta, Or(s.streamingText,
                Or(s.currentResponse, s.lastAgentMessageSnapshot))))
           w1 == [w EXCEPT !.s.lastStreamEventAt = 0, !.s.thinkingIntervalId = FALSE]
       IN IF partial # <<>>
          THEN LET w2 == [w1 EXCEPT !.s.turnCompletedPending = TRUE]
               IN IF s.pendingDelta = <<>> /\ s.streamingText = <<>>
                  THEN finalizeCompletedTurn(w2) ELSE w2
          ELSE [resetTransientTurnState(w1) EXCEPT !.s.viewState = "error", !.s.screen = "root"]
  ELSE IF s.pendingDelta # <<>>
  THEN LET n == IF Len(s.pendingDelta) < STREAM_CHARS_PER_TICK
                THEN Len(s.pendingDelta) ELSE STREAM_CHARS_PER_TICK
           chunk == SubSeq(s.pendingDelta, 1, n)
       IN [w EXCEPT !.s.viewState = IF @ = "waiting" THEN "streaming" ELSE @,
                    !.s.thinkingIntervalId = FALSE,
                    !.s.pendingDelta = SubSeq(@, n + 1, Len(@)),
                    !.s.streamingText = @ \o chunk,
                    !.s.currentResponse = s.streamingText \o chunk]
  ELSE IF s.turnCompletedPending THEN finalizeCompletedTurn(w)
  ELSE IF s.viewState \notin {"streaming", "waiting"} THEN stopStreamingDrain(w)
  ELSE w


\* stopActiveMic when the microphone is closed already
stopActiveMicClosed(w) == [w EXCEPT !.s.pcmAudioBytes = 0]

\* registerEventLoop: the catch clause after `await stopActiveMic(bridge)`
catchTail(w) ==
  park([resetTransientTurnState(stopActiveMicClosed(w))
          EXCEPT !.s.micOpen = FALSE, !.s.viewState = "error", !.s.screen = "root"],
       Flow("gesture", "gEnd", 0, ""), "gEnd")

\* an exception leaves the activation f: the gesture handler catches it and
\* shows the error; connect()/action() of the page only report it
throw(w, f) ==
  IF f.caller = "gesture"
  THEN IF w.s.micOpen THEN park(w, f, "catchMic") ELSE catchTail(w)
  ELSE w

\* the activation f returns: `finally { state.busy = false }` of the gesture handler
finish(w, f) == IF f.caller = "gesture" THEN [w EXCEPT !.s.busy = FALSE] ELSE w

\* `await renderPage(bridge)` as the last statement that touches the state
finishAfterRender(w, f) == IF f.caller = "gesture" THEN park(w, f, "gEnd") ELSE w

\* new CodexWsClient(): the fields of the fresh client; sockets, calls and
\* frames of the one it replaces stay on record
newClient(st) ==
  [st EXCEPT !.ws = 0, !.closedByClient = FALSE, !.nextId = 1, !.pending = EmptyMap,
             !.listeners = {}, !.connectPc = "idle", !.connectSock = 0]

\* what becomes of connectToCodex activations awaiting connect() of the client
\* that is being replaced: its close() rejects a pending initialize; a socket
\* still opening, or not yet created, is left to that client and the
\* outcome of its connect() is the peer's choice
RECURSIVE orphanConnects(_, _)
orphanConnects(fs, oldPc) ==
  IF fs = <<>> THEN <<>>
  ELSE LET f == Head(fs)
           g == IF f.pc = "connRender" THEN [f EXCEPT !.pc = "connOrphan"]
                ELSE IF f.pc # "connWait" THEN f
                ELSE IF oldPc = "opening" THEN [f EXCEPT !.pc = "connOrphan"]
                ELSE [f EXCEPT !.pc = "connFailed"]
       IN <<g>> \o orphanConnects(Tail(fs), oldPc)

\* connectToCodex up to its first `await renderPage`
connectToCodex(w, f) ==
  LET w1 == resetTransientTurnState(w)
      w2 == IF w1.s.client
            THEN [w1 EXCEPT !.c = newClient(close(w.c)),
                            !.flows = orphanConnects(@, w.c.connectPc),
                            !.obs.serverTurn = FALSE]
            ELSE w1
      w3 == [w2 EXCEPT !.s.client = TRUE, !.s.viewState = "connecting", !.s.screen = "list"]
  IN park(w3, f, "connRender")

\* startNewThread up to `await state.client.request('thread/start')`
startNewThread(w, f) ==
  IF ~w.s.client THEN throw(w, f) ELSE awaitRequest(w, f, "thread/start", "threadStart")

\* resumeThread up to `await state.client.request('thread/resume')`
resumeThread(w, f) ==
  IF ~w.s.client THEN throw(w, f) ELSE awaitRequest(w, f, "thread/resume", "threadResume")

\* interruptActiveTurn, then what its caller does next
afterInterrupt(w, f) ==
  IF f.then = "toList"
  THEN finishAfterRender([resetTransientTurnState(w) EXCEPT !.s.screen = "list",
                                                           !.s.viewState = "list"], f)
  ELSE finish(w, f)

interruptActiveTurnResets(w, f) ==
  IF ~w.s.client \/ w.s.activeThreadId = 0 \/ w.s.activeTurnId = 0
  THEN afterInterrupt(w, f)
  ELSE awaitRequest(setViewState(resetTransientTurnState(w), "idle"), f,
                    "turn/interrupt", "interrupt")

interruptActiveTurn(w, f) ==
  IF ~w.s.client \/ w.s.activeThreadId = 0 \/ w.s.activeTurnId = 0
  THEN afterInterrupt(w, f)
  ELSE awaitRequest(w, f, "turn/interrupt", "interrupt")

\* startRecording after `await stopActiveMic(bridge)`, up to `await bridge.audioControl(true)`
startRecordingOpen(w, f) ==
  park([w EXCEPT !.s.streamIntervalId = FALSE, !.s.thinkingIntervalId = FALSE,
                 !.s.pcmAudioBytes = 0, !.s.currentPrompt = <<>>, !.s.currentResponse = <<>>,
                 !.s.streamingText = <<>>, !.s.pendingDelta = <<>>,
                 !.s.lastAgentMessageSnapshot = <<>>, !.s.turnCompletedPending = FALSE],
       f, "recOpenMic")

startRecording(w, f) ==
  IF w.s.micOpen THEN park(w, f, "recCloseMic")
  ELSE startRecordingOpen(stopActiveMicClosed(w), f)

\* stopRecordingAndSendTurn up to its first `await renderPage`
stopRecordingAndSendTurn(w, f) ==
  IF ~w.s.client \/ w.s.activeThreadId = 0 THEN throw(w, f)
  ELSE park(setViewState(w, "transcribing"), f, "sendRender1")


\* connectToCodex after `await client.connect(wsUrl)`
afterConnect(w, f, ok) ==
  IF ok THEN awaitRequest(w, f, "thread/list", "connList") ELSE throw(w, f)

\* the continuation of the activation f when the request() it awaits has
\* settled; ev is what the peer put into the result
afterRequest(w, f, ok, ev) ==
  CASE f.pc = "connList" ->
         finishAfterRender([w EXCEPT !.s.screen = "list", !.s.viewState = "list"], f)
    [] f.pc = "threadStart" ->
         IF ~ok \/ ~ev.good THEN throw(w, f)
         ELSE park([resetTransientTurnState(w) EXCEPT !.s.activeThreadId = 1,
                                                      !.s.conversationHistory = <<>>,
                                                      !.s.screen = "root",
                                                      !.s.viewState = "idle"],
                   f, "threadRender")
    [] f.pc = "threadResume" ->
         IF ~ok \/ ~ev.good THEN throw(w, f)
         ELSE finishAfterRender(
                [resetTransientTurnState(w) EXCEPT
                   !.s.activeThreadId = 1,
                   !.s.conversationHistory = ev.history,
                   !.s.screen = "root",
                   !.s.viewState = IF ev.history # <<>> THEN "displaying" ELSE "idle"], f)
    [] f.pc = "sendTurn" ->
         IF ~ok THEN throw(w, f)
         ELSE finish(ensureStreamingDrainLoop(codexStartThinkingAnimation(
                       [w EXCEPT !.s.activeTurnId = IF ev.good THEN 1 ELSE 0])), f)
    [] f.pc = "interrupt" ->
         IF ~ok THEN throw(w, f) ELSE afterInterrupt(w, f)
    [] OTHER -> w

RemoveAt(seq, i) == SubSeq(seq, 1, i - 1) \o SubSeq(seq, i + 1, Len(seq))

\* the microtasks of the current task: every activation whose awaited promise
\* has settled runs on to its next await. When several are rejected in one
\* task (failAllPending), the gesture handler writes last: its catch clause
\* sits one `await stopActiveMic` deeper than any other continuation
RECURSIVE runMicrotasks(_, _)
runMicrotasks(w, ev) ==
  LET conn == {i \in DOMAIN w.flows :
                 \/ w.flows[i].pc = "connFailed"
                 \/ w.flows[i].pc = "connWait" /\ w.c.connectPc \in {"done", "failed"}}
      ready == {i \in DOMAIN w.flows :
                  /\ w.flows[i].req # 0
                  /\ w.c.reqs[w.flows[i].req].phase \in {"resolved", "failed"}}
      others == {i \in conn \cup ready : w.flows[i].caller # "gesture"}
      connNow == IF others # {} THEN conn \cap others ELSE conn
      readyNow == IF others # {} THEN ready \cap others ELSE ready
  IN IF connNow # {}
     THEN LET i == CHOOSE x \in connNow : \A y \in connNow : x <= y
              f == w.flows[i]
              w1 == [w EXCEPT !.flows = RemoveAt(@, i)]
          IN runMicrotasks(afterConnect(w1, f, f.pc = "connWait" /\ w.c.connectPc = "done"), ev)
     ELSE IF readyNow # {}
     THEN LET i == CHOOSE x \in readyNow : \A y \in readyNow : w.flows[x].req <= w.flows[y].req
              f == w.flows[i]
              w1 == [w EXCEPT !.flows = RemoveAt(@, i)]
          IN runMicrotasks(afterRequest(w1, f, w.c.reqs[f.req].phase = "resolved", ev), ev)
     ELSE w

\* the continuation of the activation f when the bridge, the microphone or
\* the transcription service has answered; out is the answer
afterBridge(w, f, out) ==
  CASE f.pc = "connRender" -> [w EXCEPT !.c = connectBegin(w.c),
                                        !.flows = Append(@, [f EXCEPT !.pc = "connWait"])]
    [] f.pc = "connOrphan" -> afterConnect(w, f, out.ok)
    [] f.pc = "threadRender" -> finish(voidRefreshThreadList(w), f)
    [] f.pc = "finRender" -> voidRefreshThreadList(w)
    [] f.pc = "recCloseMic" ->
         startRecordingOpen([w EXCEPT !.s.micOpen = FALSE, !.s.pcmAudioBytes = 0], f)
    [] f.pc = "recOpenMic" ->
         IF ~out.ok THEN throw(w, f)
         ELSE park([w EXCEPT !.s.micOpen = TRUE, !.s.screen = "root",
                             !.s.viewState = "recording"], f, "gEnd")
    [] f.pc = "sendRender1" ->
         IF ~w.s.micOpen THEN throw(w, f) ELSE park(w, f, "sendCloseMic")
    [] f.pc = "sendCloseMic" ->
         IF w.s.pcmAudioBytes < MIN_PCM_AUDIO_BYTES
         THEN throw([w EXCEPT !.s.micOpen = FALSE, !.s.pcmAudioBytes = 0], f)
         ELSE park([w EXCEPT !.s.micOpen = FALSE, !.s.pcmAudioBytes = 0], f, "sendTranscribe")
    [] f.pc = "sendTranscribe" ->
         IF ~out.ok THEN throw(w, f)
         ELSE park([w EXCEPT !.s.currentPrompt = out.prompt, !.s.currentResponse = <<>>,
                             !.s.streamingText = <<>>, !.s.pendingDelta = <<>>,
                             !.s.lastAgentMessageSnapshot = <<>>,
                             !.s.turnCompletedPending = FALSE,
                             !.s.viewState = "waiting", !.s.lastStreamEventAt = 1,
                             !.obs.turnDeltas = <<>>],
                   f, "sendRender2")
    [] f.pc = "sendRender2" -> awaitRequest(w, f, "turn/start", "sendTurn")
    [] f.pc = "catchMic" -> catchTail(w)
    [] f.pc = "gEnd" -> finish(w, f)
    [] OTHER -> w


\* handleNotification(method, params)
\* the `error` object of a failed turn or the params of an error
\* notification: absent, or an object that may hold error.message and message
Field(has, text) == [has |-> has, text |-> text]
ErrorParams(present, nested, message) ==
  [present |-> present, error |-> nested, message |-> message]
NoParams == ErrorParams(FALSE, Field(FALSE, <<>>), Field(FALSE, <<>>))

UnknownErrorText == <<"Unknown error">>

\* String.prototype.trim on the model's texts
trim(text) == trimEnd(trimStart(text))

parseErrorMessageNoTopLevel(params) ==
  IF ~params.present THEN UnknownErrorText
  ELSE IF params.error.has /\ trim(params.error.text) # <<>> THEN params.error.text
  ELSE UnknownErrorText

\* parseErrorMessage(params)
parseErrorMessage(params) ==
  IF ~params.present THEN UnknownErrorText
  ELSE IF params.error.has /\ trim(params.error.text) # <<>> THEN params.error.text
  ELSE IF params.message.has /\ trim(params.message.text) # <<>> THEN params.message.text
  ELSE UnknownErrorText

\* setViewState('error', detail); of state.errorDetail the model keeps what
\* the server-reported failures put there
setViewStateError(w, detail) ==
  [setViewState(w, "error") EXCEPT !.obs.errorDetail = detail]

Notification(method, text, status) ==
  [method |-> method, text |-> text, status |-> status, params |-> NoParams]

\* turn/completed with a status that is not "completed", or error
FailureNotification(method, status, params) ==
  [method |-> method, text |-> <<>>, status |-> status, params |-> params]

handleNotificationNoFallback(w, n) ==
  LET s == w.s IN
  CASE n.method = "item/agentMessage/delta" ->
         IF n.text = <<>> THEN w
         ELSE ensureStreamingDrainLoop(
                [w EXCEPT !.s.lastStreamEventAt = 1,
                          !.s.pendingDelta = @ \o n.text,
                          !.obs.turnDeltas = @ \o n.text])
    [] n.method = "item/completed" ->
         [w EXCEPT !.s.lastAgentMessageSnapshot = n.text]
    [] n.method = "turn/completed" ->
         IF n.status = "completed"
         THEN LET fallback == sanitizeDisplayText(s.lastAgentMessageSnapshot)
                  w1 == IF FALSE
                        THEN [w EXCEPT !.s.pendingDelta = @ \o fallback]
                        ELSE w
                  w2 == [w1 EXCEPT !.s.lastStreamEventAt = 1, !.s.thinkingIntervalId = FALSE,
                                   !.s.turnCompletedPending = TRUE]
              IN IF w2.s.pendingDelta = <<>> /\ w2.s.streamingText = <<>>
                 THEN finalizeCompletedTurn(w2)
                 ELSE ensureStreamingDrainLoop(w2)
         ELSE setViewStateError(resetTransientTurnState(w), parseErrorMessage(n.params))
    [] n.method = "error" ->
         setViewStateError(resetTransientTurnState(w), parseErrorMessage(n.params))
    [] OTHER -> w

handleNotification(w, n) ==
  LET s == w.s IN
  CASE n.method = "item/agentMessage/delta" ->
         IF n.text = <<>> THEN w
         ELSE ensureStreamingDrainLoop(
                [w EXCEPT !.s.lastStreamEventAt = 1,
                          !.s.pendingDelta = @ \o n.text,
                          !.obs.turnDeltas = @ \o n.text])
    [] n.method = "item/completed" ->
         [w EXCEPT !.s.lastAgentMessageSnapshot = n.text]
    [] n.method = "turn/completed" ->
         IF n.status = "completed"
         THEN LET fallback == sanitizeDisplayText(s.lastAgentMessageSnapshot)
                  w1 == IF s.streamingText = <<>> /\ s.pendingDelta = <<>> /\ fallback # <<>>
                        THEN [w EXCEPT !.s.pendingDelta = @ \o fallback]
                        ELSE w
                  w2 == [w1 EXCEPT !.s.lastStreamEventAt = 1, !.s.thinkingIntervalId = FALSE,
                                   !.s.turnCompletedPending = TRUE]
              IN IF w2.s.pendingDelta = <<>> /\ w2.s.streamingText = <<>>
                 THEN finalizeCompletedTurn(w2)
                 ELSE ensureStreamingDrainLoop(w2)
         ELSE setViewStateError(resetTransientTurnState(w), parseErrorMessage(n.params))
    [] n.method = "error" ->
         setViewStateError(resetTransientTurnState(w), parseErrorMessage(n.params))
    [] OTHER -> w

\* the handler connectToCodex gives to client.onClose
onClose(w, unexpected) ==
  IF ~unexpected THEN w
  ELSE [resetTransientTurnState(w) EXCEPT !.s.viewState = "error", !.s.screen = "root"]

\* the callback registerEventLoop gives to bridge.onEvenHubEvent, for a
\* click or double click; selected is the list entry under the cursor
onEvenHubEvent(w, eventType, selected) ==
  LET s == w.s
      f == Flow("gesture", "", 0, "")
      w1 == [w EXCEPT !.s.busy = TRUE]
  IN IF s.busy THEN w
     ELSE IF s.screen = "list"
     THEN IF eventType = "DOUBLE_CLICK_EVENT" \/ selected = "new"
          THEN startNewThread(w1, f) ELSE resumeThread(w1, f)
     ELSE IF eventType = "DOUBLE_CLICK_EVENT"
     THEN IF s.viewState \in {"idle", "displaying"} THEN startRecording(w1, f)
          ELSE IF s.viewState = "recording" THEN stopRecordingAndSendTurn(w1, f)
          ELSE IF s.viewState \in {"waiting", "streaming"} THEN interruptActiveTurn(w1, f)
          ELSE w
     ELSE IF s.viewState = "error" THEN connectToCodex(w1, f)
     ELSE IF s.viewState \in {"waiting", "streaming"}
     THEN interruptActiveTurn(w1, [f EXCEPT !.then = "toList"])
     ELSE IF s.viewState \in {"idle", "displaying"}
     THEN finishAfterRender([w1 EXCEPT !.s.screen = "list", !.s.viewState = "list"], f)
     ELSE w

\* action() of the runtime client
action(w) ==
  IF w.s.viewState \in {"waiting", "streaming"}
  THEN interruptActiveTurn(w, Flow("action", "", 0, ""))
  ELSE startNewThread(w, Flow("action", "", 0, ""))


\* ------------------------------------------------------------------------
\* SpecCodex: the controller and its client, driven by the user (gestures on
\* the glasses, the page's connect and action buttons), the bridge, the
\* app-server and the clock
\* ------------------------------------------------------------------------
Prompts == {<<"p">>}
DeltaTexts == {<<" ">>, <<"^", "b", "b", "b", "b", "b", "b", "b", "c">>}
SnapshotTexts == {<<"s">>}
RestoredHistories == {<<>>, <<[prompt |-> <<"q">>, response |-> <<"r">>]>>}
\* what a result can hold, by the method of the call
Results(method) ==
  CASE method = "thread/resume" -> {[good |-> TRUE, history |-> h] : h \in RestoredHistories}
                                   \cup {[good |-> FALSE, history |-> <<>>]}
    [] method \in {"thread/start", "turn/start"} -> {[good |-> b, history |-> <<>>] : b \in BOOLEAN}
    [] OTHER -> {[good |-> TRUE, history |-> <<>>]}
NoResult == [good |-> TRUE, history |-> <<>>]
\* the failures the server may report, with the error objects in `errors`
Failures(errors) ==
  {FailureNotification("turn/completed", "failed", e) : e \in errors}
  \cup {FailureNotification("error", "", e) : e \in errors}

Notifications(snapshots, errors) ==
  {Notification("item/agentMessage/delta", d, "") : d \in DeltaTexts}
  \cup {Notification("item/completed", t, "") : t \in snapshots}
  \cup {Notification("turn/completed", <<>>, "completed")}
  \cup Failures(errors)

BridgePcs == {"connRender", "connOrphan", "threadRender", "finRender", "recCloseMic",
              "recOpenMic", "sendRender1", "sendCloseMic", "sendTranscribe",
              "sendRender2", "catchMic", "gEnd"}

\* the answers the activation f can get
BridgeAnswers(f) ==
  CASE f.pc \in {"connOrphan", "recOpenMic"} ->
         {[ok |-> b, prompt |-> <<>>] : b \in BOOLEAN}
    [] f.pc = "sendTranscribe" ->
         {[ok |-> TRUE, prompt |-> p] : p \in Prompts} \cup {[ok |-> FALSE, prompt |-> <<>>]}
    [] OTHER -> {[ok |-> TRUE, prompt |-> <<>>]}

ListeningOpen == \E s \in listeners : readyState[s] = "open"

\* the bounds of the exploration
HandshakeBounds ==
  [calls |-> MaxHandshakeCalls, presses |-> MaxPresses, sockets |-> MaxSockets,
   deltas |-> MaxDeltas, snapshots |-> SnapshotTexts, errors |-> {NoParams}]
TurnBounds ==
  [calls |-> MaxTurnCalls, presses |-> MaxTurnPresses, sockets |-> MaxTurnSockets,
   deltas |-> MaxDeltas, snapshots |-> SnapshotTexts, errors |-> {NoParams}]

\* the turns sent so far, and whether the user is recording the next one
TurnsSent(w) == Cardinality({c \in DOMAIN w.c.calls : w.c.calls[c].method = "turn/start"})
Recording(w) ==
  \/ w.s.viewState \in {"recording", "transcribing"}
  \/ \E i \in DOMAIN w.flows : w.flows[i].pc \in {"recCloseMic", "recOpenMic"}

Within(w, B) ==
  /\ Len(w.c.calls) <= B.calls
  /\ Len(w.flows) <= MaxFlows
  /\ w.obs.presses <= B.presses
  /\ Recording(w) => TurnsSent(w) < MaxTurns
  /\ Cardinality({s \in Sockets : w.c.readyState[s] # "unused"}) <= B.sockets
  /\ Cardinality({i \in DOMAIN w.flows : w.flows[i].pc = "connRender"})
       + Cardinality({s \in Sockets : w.c.readyState[s] # "unused"}) <= B.sockets

Step(w, B) == Within(w, B) /\ SetWorld(w)

InitCodex == InitRpc

\* the page's connect button: initClient (registerEventLoop), connectToCodex
ConnectButtonStep(B) ==
  Step(runMicrotasks(connectToCodex([World EXCEPT !.s.eventLoopRegistered = TRUE,
                                                  !.obs.presses = @ + 1],
                                    Flow("connect", "", 0, "")), NoResult), B)

\* the page's action button
ActionButtonStep(B) ==
  /\ state.eventLoopRegistered
  /\ Step(runMicrotasks(action([World EXCEPT !.obs.presses = @ + 1]), NoResult), B)

\* a click or a double click on the glasses
GestureStep(B) ==
  \E eventType \in {"CLICK_EVENT", "DOUBLE_CLICK_EVENT"} : \E selected \in {"new", "thread"} :
    /\ state.eventLoopRegistered
    /\ ~state.busy
    /\ Step(runMicrotasks(onEvenHubEvent(World, eventType, selected), NoResult), B)

\* an audio event with PCM data while recording
AudioStep(B) ==
  /\ state.eventLoopRegistered /\ state.micOpen
  /\ state.viewState = "recording" /\ state.screen = "root"
  /\ Step([World EXCEPT !.s.pcmAudioBytes = MIN_PCM_AUDIO_BYTES], B)

\* the bridge, the microphone or the transcription service answers
BridgeReplyStep(B) ==
  \E i \in DOMAIN flows : \E out \in BridgeAnswers(flows[i]) :
    /\ flows[i].pc \in BridgePcs
    /\ Step(runMicrotasks(afterBridge([World EXCEPT !.flows = RemoveAt(@, i)], flows[i], out),
                          NoResult), B)

SocketOpenStep(B) ==
  /\ connectPc = "opening"
  /\ Step(runMicrotasks([World EXCEPT !.c = connectOnOpen(Cur)], NoResult), B)

SocketErrorStep(B) ==
  /\ connectPc = "opening"
  /\ Step(runMicrotasks([World EXCEPT !.c = connectOnError(Cur)], NoResult), B)

\* the app-server answers an outstanding call
ResponseStep(B) ==
  \E e \in pending : \E isError \in BOOLEAN : \E ev \in Results(calls[e.call].method) :
    /\ ListeningOpen
    /\ isError => ev = NoResult
    /\ LET id == calls[e.call].id
           msg == IF isError THEN ErrorMsg(id, "malformed") ELSE ResponseMsg(id, TRUE)
       IN Step(runMicrotasks([World EXCEPT !.c = handleIncoming(Cur, msg, 0)], ev), B)

\* the app-server sends a notification
NotificationOfStep(n, B) ==
  /\ ListeningOpen /\ obs.serverTurn
  /\ n.method = "item/agentMessage/delta" => obs.serverDeltas < B.deltas
  /\ LET w1 == [World EXCEPT
                 !.obs.serverTurn = n.method \notin {"turn/completed", "error"},
                 !.obs.serverDeltas = IF n.method = "item/agentMessage/delta"
                                      THEN @ + 1 ELSE @]
     IN Step(runMicrotasks(handleNotification(w1, n), NoResult), B)

NotificationStep(B) ==
  \E n \in Notifications(B.snapshots, B.errors) : NotificationOfStep(n, B)

\* the drain interval fires; stalled: more than STREAM_STALL_TIMEOUT_MS since the last event
StreamTickStep(B) ==
  /\ state.streamIntervalId
  /\ Step(runMicrotasks(streamTick(World, FALSE), NoResult), B)

\* the thinking interval fires
ThinkingTickStep(B) ==
  /\ state.thinkingIntervalId
  /\ Step(runMicrotasks(thinkingTick(World), NoResult), B)

StallTickStep(B) ==
  /\ state.streamIntervalId
  /\ state.viewState \in {"waiting", "streaming"} /\ state.lastStreamEventAt > 0
  /\ Step(runMicrotasks(streamTick(World, TRUE), NoResult), B)

SocketClosedStep(B) ==
  \E s \in Sockets :
    /\ readyState[s] \in {"open", "closing"}
    /\ LET w1 == [World EXCEPT !.c.readyState[s] = "closed",
                                !.obs.serverTurn = IF s = ws THEN FALSE ELSE @]
       IN Step(runMicrotasks(
                 IF s \in listeners
                 THEN onClose([w1 EXCEPT !.c = closeListener(w1.c, s)], ~closedByClient)
                 ELSE w1, NoResult), B)

CxConnectButton == ConnectButtonStep(HandshakeBounds)
CxActionButton == ActionButtonStep(HandshakeBounds)
CxGesture == GestureStep(HandshakeBounds)
CxBridgeReply == BridgeReplyStep(HandshakeBounds)
CxSocketOpen == SocketOpenStep(HandshakeBounds)
CxSocketError == SocketErrorStep(HandshakeBounds)
CxResponse == ResponseStep(HandshakeBounds)
CxSocketClosed == SocketClosedStep(HandshakeBounds)

NextCodex ==
  \/ CxConnectButton
  \/ CxActionButton
  \/ CxGesture
  \/ CxBridgeReply
  \/ CxSocketOpen
  \/ CxSocketError
  \/ CxResponse
  \/ CxSocketClosed

SpecCodex == InitCodex /\ [][NextCodex]_vars

\* ------------------------------------------------------------------------
\* SpecTurn: the same controller and client when the page's connect button is
\* used once and everything else comes from the glasses, the bridge, the
\* app-server and the clock
\* ------------------------------------------------------------------------
TurnConnectButton == ConnectButtonStep(TurnBounds)
TurnGesture == GestureStep(TurnBounds)
TurnAudio == AudioStep(TurnBounds)
TurnBridgeReply == BridgeReplyStep(TurnBounds)
TurnSocketOpen == SocketOpenStep(TurnBounds)
TurnSocketError == SocketErrorStep(TurnBounds)
TurnResponse == ResponseStep(TurnBounds)
TurnNotification == NotificationStep(TurnBounds)
TurnStreamTick == StreamTickStep(TurnBounds)
TurnStallTick == StallTickStep(TurnBounds)
TurnThinkingTick == ThinkingTickStep(TurnBounds)
TurnSocketClosed == SocketClosedStep(TurnBounds)

NextTurn ==
  \/ TurnConnectButton
  \/ TurnGesture
  \/ TurnAudio
  \/ TurnBridgeReply
  \/ TurnSocketOpen
  \/ TurnSocketError
  \/ TurnResponse
  \/ TurnNotification
  \/ TurnStreamTick
  \/ TurnStallTick
  \/ TurnThinkingTick
  \/ TurnSocketClosed

SpecTurn == InitCodex /\ [][NextTurn]_vars


\* ------------------------------------------------------------------------
\* SpecServer: SpecTurn with an app-server that also sends requests of its
\* own (a frame with a method and an id)
\* ------------------------------------------------------------------------
MaxServerRequests == 1
UNSUPPORTED_METHOD_CODE == -32601

ApprovalMethods == {"item/commandExecution/requestApproval", "item/fileChange/requestApproval"}
\* the requests the app-server makes: a method and the id it chose
ServerRequestFrames ==
  {[method |-> "item/commandExecution/requestApproval", id |-> NumId(1)],
   [method |-> "item/fileChange/requestApproval", id |-> StrId(1)],
   [method |-> "item/tool/requestUserInput", id |-> NumId(1)]}

\* respond(id, result) and respondError(id, code, message): the frame sendRaw sends
respond(st, id, result) ==
  [st EXCEPT !.sent = Append(@, [sock |-> st.ws, kind |-> "result", id |-> id,
                                 method |-> "none", result |-> result])]

respondError(st, id, code) ==
  [st EXCEPT !.sent = Append(@, [sock |-> st.ws, kind |-> "error", id |-> id,
                                 method |-> "none", code |-> code])]

\* handleServerRequest(method, id); sendRaw throws when the socket is not
\* open, and nothing after `await renderPage` touches the state
handleServerRequestAsUnsupported(w, method, id) ==
  IF ~w.s.client \/ ~canSend(w.c) THEN w
  ELSE [w EXCEPT !.c = respondError(w.c, id, UNSUPPORTED_METHOD_CODE)]

handleServerRequestAsApproval(w, method, id) ==
  IF ~w.s.client \/ ~canSend(w.c) THEN w
  ELSE setViewState(resetTransientTurnState(
                      [w EXCEPT !.c = respond(w.c, id, "decline")]), "error")

handleServerRequest(w, method, id) ==
  IF ~w.s.client \/ ~canSend(w.c) THEN w
  ELSE IF method \in ApprovalMethods
  THEN setViewState(resetTransientTurnState(
                      [w EXCEPT !.c = respond(w.c, id, "decline")]), "error")
  ELSE [w EXCEPT !.c = respondError(w.c, id, UNSUPPORTED_METHOD_CODE)]

ServerRequests(st) == SelectSeq(st.delivered, LAMBDA d : d.kind = "serverRequest")

\* the app-server, running a turn, sends a request; the 'message' listener runs
\* handleIncoming, which hands it to the handler connectToCodex gave to
\* onServerRequest
ServerRequestStep(B) ==
  \E fr \in ServerRequestFrames :
    /\ ListeningOpen /\ obs.serverTurn
    /\ Len(ServerRequests(Cur)) < MaxServerRequests
    /\ LET w1 == [World EXCEPT !.c = handleIncoming(Cur, MethodMsg(fr.method, TRUE, fr.id), 0)]
       IN Step(runMicrotasks(handleServerRequest(w1, fr.method, fr.id), NoResult), B)

TurnServerRequest == ServerRequestStep(TurnBounds)

NextServer ==
  \/ NextTurn
  \/ TurnServerRequest

SpecServer == InitCodex /\ [][NextServer]_vars


\* ------------------------------------------------------------------------
\* SpecInterrupt: the controller during a turn when the page's action button
\* is used as well and the 45 s timer of a call can fire
\* ------------------------------------------------------------------------
MaxInterruptCalls == 5
MaxInterruptPresses == 2
MaxInterruptDeltas == 1
MaxTimeouts == 1

InterruptBounds ==
  [calls |-> MaxInterruptCalls, presses |-> MaxInterruptPresses, sockets |-> MaxTurnSockets,
   deltas |-> MaxInterruptDeltas, snapshots |-> SnapshotTexts, errors |-> {NoParams}]

TimedOut == {c \in DOMAIN calls : calls[c].outcome = "timeout"}

\* the 45 s timer of a turn/start or turn/interrupt call fires; its rejection
\* resumes the awaiting activation
TimeoutStep(B) ==
  \E c \in timers :
    /\ calls[c].method \in {"turn/start", "turn/interrupt"}
    /\ Cardinality(TimedOut) < MaxTimeouts
    /\ Step(runMicrotasks([World EXCEPT !.c = requestTimeout(Cur, c)], NoResult), B)

\* the fifth call is the turn/interrupt
InterruptScope ==
  Cardinality({c \in DOMAIN calls : calls[c].method # "turn/interrupt"}) <= MaxTurnCalls

IntConnectButton == ConnectButtonStep(InterruptBounds) /\ InterruptScope'
\* the action button is used to stop a running turn
IntActionButton ==
  /\ state.viewState \in {"waiting", "streaming"}
  /\ ActionButtonStep(InterruptBounds)
  /\ InterruptScope'
IntGesture == GestureStep(InterruptBounds) /\ InterruptScope'
IntAudio == AudioStep(InterruptBounds) /\ InterruptScope'
IntBridgeReply == BridgeReplyStep(InterruptBounds) /\ InterruptScope'
IntSocketOpen == SocketOpenStep(InterruptBounds) /\ InterruptScope'
IntSocketError == SocketErrorStep(InterruptBounds) /\ InterruptScope'
IntResponse == ResponseStep(InterruptBounds) /\ InterruptScope'
IntNotification == NotificationStep(InterruptBounds) /\ InterruptScope'
IntStreamTick == StreamTickStep(InterruptBounds) /\ InterruptScope'
IntStallTick == StallTickStep(InterruptBounds) /\ InterruptScope'
IntThinkingTick == ThinkingTickStep(InterruptBounds) /\ InterruptScope'
IntSocketClosed == SocketClosedStep(InterruptBounds) /\ InterruptScope'
IntTimeout == TimeoutStep(InterruptBounds) /\ InterruptScope'

NextInterrupt ==
  \/ IntConnectButton
  \/ IntActionButton
  \/ IntGesture
  \/ IntAudio
  \/ IntBridgeReply
  \/ IntSocketOpen
  \/ IntSocketError
  \/ IntResponse
  \/ IntNotification
  \/ IntStreamTick
  \/ IntStallTick
  \/ IntThinkingTick
  \/ IntSocketClosed
  \/ IntTimeout

SpecInterrupt == InitCodex /\ [][NextInterrupt]_vars


\* ------------------------------------------------------------------------
\* The G2 Claude controller (src/apps/g2claude/main.ts).  In SpecClaude
\* `state` is that module's state object (with its g2Client), `flows` holds
\* its async functions suspended at an await of the bridge or of a fetch, and
\* obs.timers is the browser's table of live intervals and timeouts.  The
\* server answers with 200 or 500 (never 401/404), rendering never throws.
\* ------------------------------------------------------------------------
MaxEpoch == 3
MaxG2Presses == 3
MaxG2Flows == 3
MaxPolls == 2
MaxConnects == 1

G2Prompt == <<"p">>
G2Response == <<"r", "r", "r", "r", "r", "r", "r", "r", "r">>

G2InitState ==
  [eventLoopRegistered |-> FALSE, bridge |-> FALSE, g2Client |-> "none",
   viewState |-> "idle", sessionId |-> 0, micOpen |-> FALSE, pcmAudioBytes |-> 0,
   pollIntervalId |-> 0, pollTimeoutId |-> 0, pollRequestInFlight |-> FALSE,
   runVersion |-> 0, activeRequestId |-> 0, pendingPrompt |-> <<>>,
   conversationHistory |-> <<>>, currentPrompt |-> <<>>, currentResponse |-> <<>>,
   streamingText |-> <<>>, streamCharsIndex |-> 0, streamIntervalId |-> 0,
   thinkingIntervalId |-> 0, renderInFlight |-> FALSE, renderPending |-> FALSE,
   busy |-> FALSE]

G2Actor(epoch, kind) == [epoch |-> epoch, kind |-> kind]

\* what a run owns: the view, its timers and its turn buffers
RunOwned(s, tm) ==
  [viewState |-> s.viewState, timers |-> tm,
   pollIntervalId |-> s.pollIntervalId, pollTimeoutId |-> s.pollTimeoutId,
   thinkingIntervalId |-> s.thinkingIntervalId, streamIntervalId |-> s.streamIntervalId,
   currentPrompt |-> s.currentPrompt, currentResponse |-> s.currentResponse,
   streamingText |-> s.streamingText, streamCharsIndex |-> s.streamCharsIndex,
   pendingPrompt |-> s.pendingPrompt, activeRequestId |-> s.activeRequestId,
   micOpen |-> s.micOpen, pcmAudioBytes |-> s.pcmAudioBytes]

NoStale == [seen |-> FALSE, at |-> RunOwned(G2InitState, {})]

G2InitObs ==
  [timers |-> {}, nextTimer |-> 1, nextRequestId |-> 1, presses |-> 0, polls |-> 0,
   connects |-> 0, actor |-> G2Actor(0, "none"), stale |-> NoStale]

\* the world a task starts from; no stale-operation signal raised in it yet
G2World == [s |-> state, flows |-> flows, obs |-> [obs EXCEPT !.stale = NoStale]]

\* an async function in flight: the epoch it runs under, the await it is
\* suspended at, and the locals it captured
G2Flow(kind, epoch) ==
  [kind |-> kind, epoch |-> epoch, pc |-> "start", runVersion |-> 0, requestId |-> 0,
   clearHistory |-> FALSE, then |-> "done", handler |-> kind = "gesture"]

g2park(w, f, pc) == [w EXCEPT !.flows = Append(@, [f EXCEPT !.pc = pc])]

clearTimer(w, id) == [w EXCEPT !.obs.timers = {t \in @ : t.id # id}]

setTimer(w, kind, runVersion, requestId) ==
  [w EXCEPT !.obs.timers = @ \cup {[id |-> w.obs.nextTimer, kind |-> kind,
                                    runVersion |-> runVersion, requestId |-> requestId]},
            !.obs.nextTimer = @ + 1]

g2stopPolling(w) ==
  [clearTimer(clearTimer(w, w.s.pollIntervalId), w.s.pollTimeoutId)
     EXCEPT !.s.pollIntervalId = 0, !.s.pollTimeoutId = 0, !.s.pollRequestInFlight = FALSE]

g2stopThinkingAnimation(w) ==
  [clearTimer(w, w.s.thinkingIntervalId) EXCEPT !.s.thinkingIntervalId = 0]

g2stopStreamingAnimation(w) ==
  [clearTimer(w, w.s.streamIntervalId) EXCEPT !.s.streamIntervalId = 0]

g2stopAll(w) == g2stopStreamingAnimation(g2stopThinkingAnimation(g2stopPolling(w)))

isCurrentRun(w, runVersion) == runVersion = w.s.runVersion

invalidateCurrentRun(w) ==
  [w EXCEPT !.s.runVersion = @ + 1, !.s.activeRequestId = 0, !.s.pendingPrompt = <<>>]

g2setViewState(w, next) == [w EXCEPT !.s.viewState = next]

g2appendConversationTurn(history, prompt, response) ==
  appendConversationTurn(history, prompt, response)

\* stopActiveMic once the microphone is known to be closed
g2micClosed(w) == [w EXCEPT !.s.micOpen = FALSE, !.s.pcmAudioBytes = 0]

g2clearTurnText(w) ==
  [w EXCEPT !.s.currentPrompt = <<>>, !.s.currentResponse = <<>>,
            !.s.streamingText = <<>>, !.s.streamCharsIndex = 0, !.s.pendingPrompt = <<>>]

\* `void renderPage(bridge)`: joins the render in flight or starts one
g2voidRenderPage(w, epoch) ==
  IF w.s.renderInFlight THEN [w EXCEPT !.s.renderPending = TRUE]
  ELSE g2park([w EXCEPT !.s.renderInFlight = TRUE], G2Flow("render", epoch), "voidRender")

RECURSIVE g2resume(_, _, _)

\* `await renderPage(bridge)`: returns at once when a render is in flight
g2renderPage(w, f, pc) ==
  IF w.s.renderInFlight
  THEN g2resume([w EXCEPT !.s.renderPending = TRUE], [f EXCEPT !.pc = pc], TRUE)
  ELSE g2park([w EXCEPT !.s.renderInFlight = TRUE], f, pc)

\* the handler's `finally`
g2finally(w, f) == IF f.handler THEN [w EXCEPT !.s.busy = FALSE] ELSE w

\* the handler's catch of an error that is not a StaleOperationError, from
\* after its `await stopActiveMic`
g2catchTail(w, f) ==
  g2renderPage(g2setViewState([g2clearTurnText(w) EXCEPT !.s.activeRequestId = 0], "error"),
               f, "catchRender")

g2catch(w, f) ==
  LET w1 == g2stopAll(w)
  IN IF w1.s.micOpen THEN g2park(w1, f, "catchMic")
     ELSE g2catchTail([w1 EXCEPT !.s.pcmAudioBytes = 0], f)

\* a continuation finds its captured run version is not the current one
\* (isCurrentRun false, ensureCurrentRun throws StaleOperationError); the
\* world at that point is noted
staleDetected(w) ==
  [w EXCEPT !.obs.stale = [seen |-> TRUE, at |-> RunOwned(w.s, w.obs.timers)]]

swallowStaleAsError(w, f) == g2catch(staleDetected(w), f)

\* ensureCurrentRun throws, the handler's catch returns on a
\* StaleOperationError, its finally runs
swallowStale(w, f) == g2finally(staleDetected(w), f)

\* startRecording from after its `await stopActiveMic`
g2startRecordingBody(w, f) ==
  LET w1 == g2stopStreamingAnimation(g2stopThinkingAnimation(w))
  IN g2park([g2clearTurnText(w1) EXCEPT !.s.pcmAudioBytes = 0], f, "srOpenMic")

g2startRecording(w, f) ==
  IF w.s.micOpen THEN g2park(w, f, "srCloseMic")
  ELSE g2startRecordingBody([w EXCEPT !.s.pcmAudioBytes = 0], f)

g2stopRecordingToBlob(w, f) ==
  IF ~w.s.micOpen THEN g2catch(w, f) ELSE g2park(w, f, "ssCloseMic")

g2stopRecordingAndSend(w, f) ==
  g2renderPage(g2setViewState(w, "transcribing"),
               [f EXCEPT !.runVersion = w.s.runVersion, !.kind = "turn"], "ssRender1")

startThinkingAnimation(w, runVersion) ==
  LET w1 == setTimer(g2stopThinkingAnimation(w), "think", runVersion, 0)
  IN [w1 EXCEPT !.s.thinkingIntervalId = w.obs.nextTimer]

startPolling(w, runVersion, requestId) ==
  LET w0 == g2stopPolling(w)
      w1 == setTimer(w0, "poll", runVersion, requestId)
      w2 == setTimer(w1, "timeout", runVersion, requestId)
  IN [w2 EXCEPT !.s.pollIntervalId = w0.obs.nextTimer, !.s.pollTimeoutId = w1.obs.nextTimer]

startStreamingAnimation(w, runVersion, fullText) ==
  IF ~isCurrentRun(w, runVersion) THEN w
  ELSE LET w1 == g2stopStreamingAnimation(w)
           w2 == g2setViewState([w1 EXCEPT !.s.currentResponse = fullText,
                                           !.s.streamingText = <<>>,
                                           !.s.streamCharsIndex = 0], "streaming")
           w3 == g2voidRenderPage(w2, runVersion)
           w4 == setTimer(w3, "stream", runVersion, 0)
       IN [w4 EXCEPT !.s.streamIntervalId = w3.obs.nextTimer]

\* resetToIdle from after its `await stopActiveMic`
g2resetTail(w, f) ==
  LET w1 == [g2clearTurnText(w) EXCEPT
               !.s.busy = FALSE,
               !.s.conversationHistory = IF f.clearHistory THEN <<>> ELSE @]
  IN g2renderPage(g2setViewState(w1, "idle"), f, "rsRender")

\* resetToIdle opens the next epoch; what follows in this flow belongs to it
resetToIdle(w, f0) ==
  LET w1 == g2stopAll(invalidateCurrentRun(w))
      f == [f0 EXCEPT !.epoch = w1.s.runVersion, !.kind = "reset"]
  IN IF w1.s.micOpen THEN g2park(w1, f, "rsMic")
     ELSE g2resetTail([w1 EXCEPT !.s.pcmAudioBytes = 0], f)

\* the poll callback from after its fetch
g2pollResponse(w, f, out) ==
  LET cur == /\ isCurrentRun(w, f.runVersion)
             /\ w.s.activeRequestId = f.requestId
             /\ w.s.viewState = "waiting"
      w1 == [g2stopThinkingAnimation(g2stopPolling(w)) EXCEPT
               !.s.activeRequestId = 0, !.s.pendingPrompt = <<>>]
      w2 == IF cur /\ out = "text" /\ sanitizeDisplayText(G2Response) # <<>>
            THEN startStreamingAnimation(w1, f.runVersion, sanitizeDisplayText(G2Response))
            ELSE IF isCurrentRun(w, f.runVersion) THEN w ELSE staleDetected(w)
  IN [w2 EXCEPT !.s.pollRequestInFlight = FALSE]

\* handleWaitingTimeout, the callback of the wait timeout
handleWaitingTimeout(w, t) ==
  IF ~isCurrentRun(w, t.runVersion) THEN staleDetected(w)
  ELSE IF \/ w.s.activeRequestId # t.requestId
     \/ w.s.viewState # "waiting"
  THEN w
  ELSE LET w1 == [g2stopThinkingAnimation(g2stopPolling(w)) EXCEPT
                    !.s.activeRequestId = 0, !.s.pendingPrompt = <<>>]
       IN g2renderPage(g2setViewState(w1, "error"),
                       G2Flow("timeout", t.runVersion), "toRender")

\* the callback of the thinking interval
g2thinkTick(w, t) ==
  IF ~isCurrentRun(w, t.runVersion) THEN g2stopThinkingAnimation(staleDetected(w))
  ELSE IF w.s.viewState # "waiting"
  THEN g2stopThinkingAnimation(w)
  ELSE g2voidRenderPage(w, t.runVersion)

\* the callback of the streaming interval
g2streamTick(w, t) ==
  IF ~isCurrentRun(w, t.runVersion) THEN g2stopStreamingAnimation(staleDetected(w))
  ELSE IF w.s.viewState # "streaming"
  THEN g2stopStreamingAnimation(w)
  ELSE LET s == w.s
           next == IF Len(s.currentResponse) < s.streamCharsIndex + STREAM_CHARS_PER_TICK
                   THEN Len(s.currentResponse)
                   ELSE s.streamCharsIndex + STREAM_CHARS_PER_TICK
           w1 == g2voidRenderPage([w EXCEPT !.s.streamCharsIndex = next,
                                            !.s.streamingText = SubSeq(s.currentResponse, 1, next)],
                                  t.runVersion)
           w2 == g2stopStreamingAnimation(w1)
           w3 == [g2clearTurnText(w2) EXCEPT
                    !.s.conversationHistory =
                       g2appendConversationTurn(@, s.currentPrompt, s.currentResponse)]
       IN IF next >= Len(s.currentResponse)
          THEN g2voidRenderPage(g2setViewState(w3, "displaying"), t.runVersion)
          ELSE w1

\* the callback of the poll interval, up to its fetch
g2pollTick(w, t) ==
  IF ~isCurrentRun(w, t.runVersion) THEN staleDetected(w)
  ELSE IF \/ w.s.viewState # "waiting"
     \/ w.s.activeRequestId # t.requestId
     \/ w.s.pollRequestInFlight
  THEN w
  ELSE g2park([w EXCEPT !.s.pollRequestInFlight = TRUE, !.obs.polls = @ + 1],
              [G2Flow("poll", t.runVersion) EXCEPT !.runVersion = t.runVersion,
                                                   !.requestId = t.requestId],
              "pollFetch")

\* what follows resetToIdle in its caller
g2afterReset(w, f) ==
  CASE f.then = "finally" -> g2finally(w, f)
    [] f.then = "start" ->
         resetToIdle([w EXCEPT !.s.g2Client = "bridge"], [f EXCEPT !.then = "done"])
    [] OTHER -> w

\* flow f goes on from the await it was suspended at, which gave `out`
g2resume(w, f, out) ==
  LET stale == ~isCurrentRun(w, f.runVersion)
  IN CASE f.pc = "srCloseMic" -> g2startRecordingBody(g2micClosed(w), f)
       [] f.pc = "srOpenMic" ->
            IF ~out THEN g2catch(w, f)
            ELSE g2renderPage(g2setViewState([w EXCEPT !.s.micOpen = TRUE], "recording"),
                              f, "srRender")
       [] f.pc = "srRender" -> g2finally(w, f)
       [] f.pc = "ssRender1" -> g2stopRecordingToBlob(w, f)
       [] f.pc = "ssCloseMic" ->
            IF w.s.pcmAudioBytes < MIN_PCM_AUDIO_BYTES THEN g2catch(g2micClosed(w), f)
            ELSE IF stale THEN swallowStale(g2micClosed(w), f)
            ELSE g2park(g2micClosed(w), f, "ssTranscribe")
       [] f.pc = "ssTranscribe" ->
            IF ~out THEN g2catch(w, f)
            ELSE IF stale THEN swallowStale(w, f)
            ELSE g2renderPage(g2setViewState([w EXCEPT !.s.currentPrompt = G2Prompt,
                                                       !.s.pendingPrompt = G2Prompt],
                                             "waiting"),
                              f, "ssRender2")
       [] f.pc = "ssRender2" ->
            IF stale THEN swallowStale(w, f) ELSE g2park(w, f, "ssSession")
       [] f.pc = "ssSession" ->
            IF ~out THEN g2catch(w, f)
            ELSE IF stale THEN swallowStale([w EXCEPT !.s.sessionId = 1], f)
            ELSE g2park([w EXCEPT !.s.sessionId = 1,
                                  !.s.activeRequestId = w.obs.nextRequestId,
                                  !.obs.nextRequestId = @ + 1],
                        [f EXCEPT !.requestId = w.obs.nextRequestId], "ssSend")
       [] f.pc = "ssSend" ->
            IF ~out THEN g2catch(w, f)
            ELSE IF stale THEN swallowStale(w, f)
            ELSE g2finally(startPolling(startThinkingAnimation(w, f.runVersion),
                                        f.runVersion, f.requestId), f)
       [] f.pc = "catchMic" -> g2catchTail(g2micClosed(w), f)
       [] f.pc = "catchRender" -> g2finally(w, f)
       [] f.pc = "rsMic" -> g2resetTail(g2micClosed(w), f)
       [] f.pc = "rsRender" -> g2afterReset(w, f)
       [] f.pc = "cnBridge" ->
            IF ~out THEN [w EXCEPT !.s.g2Client = "mock"]
            ELSE g2park([w EXCEPT !.s.bridge = TRUE, !.s.eventLoopRegistered = TRUE],
                        f, "cnSession")
       [] f.pc = "cnSession" ->
            IF ~out THEN [w EXCEPT !.s.g2Client = "mock"]
            ELSE resetToIdle([w EXCEPT !.s.sessionId = 1],
                             [f EXCEPT !.clearHistory = TRUE, !.then = "start"])
       [] f.pc = "pollFetch" -> g2pollResponse(w, f, out)
       [] f.pc = "toRender" -> g2park(w, f, "toSession")
       [] f.pc = "toSession" -> IF out THEN [w EXCEPT !.s.sessionId = 1] ELSE w
       [] OTHER -> w

\* createG2ClaudeActions().connect
g2connect(w) ==
  LET f == G2Flow("connect", w.s.runVersion)
  IN IF ~w.s.bridge THEN g2park(w, f, "cnBridge")
     ELSE g2park([w EXCEPT !.s.eventLoopRegistered = TRUE], f, "cnSession")

\* createG2ClaudeActions().action with a bridge client
g2action(w) ==
  resetToIdle(w, [G2Flow("reset", w.s.runVersion) EXCEPT !.clearHistory = TRUE])

\* the handler registerEventLoop installs, for a click or a double click
\* that finds the controller not busy
g2onEvenHubEvent(w, eventType) ==
  LET f == G2Flow("gesture", w.s.runVersion)
      w1 == [w EXCEPT !.s.busy = TRUE]
      view == w.s.viewState
  IN IF eventType = "doubleClick"
     THEN IF view \in {"idle", "displaying"} THEN g2startRecording(w1, f)
          ELSE IF view = "recording" THEN g2stopRecordingAndSend(w1, f)
          ELSE g2finally(w1, f)
     ELSE IF view = "error" THEN resetToIdle(w1, [f EXCEPT !.then = "finally"])
          ELSE g2finally(w1, f)

\* ------------------------------------------------------------------------
\* SpecClaude: the G2 Claude controller with its user, bridge, server, clock
\* ------------------------------------------------------------------------
RenderPcs == {"voidRender", "srRender", "ssRender1", "ssRender2", "catchRender",
              "rsRender", "toRender"}

G2Answers(f) ==
  IF f.pc \in {"srOpenMic", "ssTranscribe", "ssSession", "ssSend", "cnBridge", "cnSession",
               "toSession"}
  THEN {TRUE, FALSE}
  ELSE IF f.pc = "pollFetch" THEN {"text", "empty"} ELSE {TRUE}

G2Within(w) ==
  /\ w.s.runVersion <= MaxEpoch
  /\ w.obs.presses <= MaxG2Presses
  /\ w.obs.polls <= MaxPolls
  /\ w.obs.connects <= MaxConnects

G2Step(w, actor) ==
  /\ G2Within(w)
  /\ state' = w.s
  /\ flows' = w.flows
  /\ obs' = [w.obs EXCEPT !.actor = actor]
  /\ UNCHANGED <<rpcVars, last>>

InitClaude == state = G2InitState /\ flows = <<>> /\ obs = G2InitObs /\ InitClient

\* the user acts while at most MaxG2Flows async functions are in flight
G2Room == Len(flows) < MaxG2Flows

G2ConnectButton ==
  /\ G2Room
  /\ G2Step(g2connect([G2World EXCEPT !.obs.connects = @ + 1]),
         G2Actor(state.runVersion, "connect"))

G2ActionButton ==
  /\ G2Room /\ state.g2Client = "bridge"
  /\ G2Step(g2action([G2World EXCEPT !.obs.presses = @ + 1]),
            G2Actor(state.runVersion + 1, "reset"))

G2Gesture ==
  /\ G2Room /\ state.eventLoopRegistered /\ ~state.busy
  /\ \E eventType \in {"click", "doubleClick"} :
       /\ IF eventType = "click" THEN state.viewState = "error"
          ELSE state.viewState \in {"idle", "displaying", "recording"}
       /\ G2Step(g2onEvenHubEvent([G2World EXCEPT !.obs.presses = @ + 1], eventType),
                 IF eventType = "click" THEN G2Actor(state.runVersion + 1, "reset")
                 ELSE IF state.viewState = "recording" THEN G2Actor(state.runVersion, "turn")
                 ELSE G2Actor(state.runVersion, "gesture"))

G2Audio ==
  /\ state.eventLoopRegistered /\ state.viewState = "recording"
  /\ state.pcmAudioBytes < MIN_PCM_AUDIO_BYTES
  /\ G2Step([G2World EXCEPT !.s.pcmAudioBytes = @ + MIN_PCM_AUDIO_BYTES],
            G2Actor(state.runVersion, "audio"))

\* the awaits that wait for the server: fetch of /__groq_transcribe,
\* /__g2_session, /__g2_send and /__g2_poll
FetchPcs == {"ssTranscribe", "ssSession", "ssSend", "cnSession", "pollFetch", "toSession"}

\* an await is answered: of a fetch (server = TRUE) or of the bridge
G2ReplyFrom(server) ==
  \E i \in {j \in DOMAIN flows : (flows[j].pc \in FetchPcs) = server} :
    LET f == flows[i]
        w == [G2World EXCEPT !.flows = RemoveAt(flows, i)]
    IN IF f.pc \in RenderPcs /\ state.renderPending
       THEN G2Step([G2World EXCEPT !.s.renderPending = FALSE], G2Actor(f.epoch, "render"))
       ELSE \E out \in G2Answers(f) :
              G2Step(g2resume(IF f.pc \in RenderPcs
                              THEN [w EXCEPT !.s.renderInFlight = FALSE] ELSE w, f, out),
                     G2Actor(f.epoch, f.kind))

G2Reply == G2ReplyFrom(TRUE) \/ G2ReplyFrom(FALSE)

G2ThinkTick ==
  \E t \in {x \in obs.timers : x.kind = "think"} :
    G2Step(g2thinkTick(G2World, t), G2Actor(t.runVersion, "timer"))

G2StreamTick ==
  \E t \in {x \in obs.timers : x.kind = "stream"} :
    G2Step(g2streamTick(G2World, t), G2Actor(t.runVersion, "timer"))

G2PollTick ==
  \E t \in {x \in obs.timers : x.kind = "poll"} :
    G2Step(g2pollTick(G2World, t), G2Actor(t.runVersion, "timer"))

G2WaitTimeout ==
  \E t \in {x \in obs.timers : x.kind = "timeout"} :
    G2Step(handleWaitingTimeout(clearTimer(G2World, t.id), t), G2Actor(t.runVersion, "timeout"))

NextClaude ==
  \/ G2ConnectButton
  \/ G2ActionButton
  \/ G2Gesture
  \/ G2Audio
  \/ G2Reply
  \/ G2ThinkTick
  \/ G2StreamTick
  \/ G2PollTick
  \/ G2WaitTimeout

SpecClaude == InitClaude /\ [][NextClaude]_vars

\* the browser runs every timer callback that stays or keeps coming due, and
\* the bridge on the device answers its calls; nothing obliges the server to
\* answer a fetch
FairSpecClaude ==
  /\ SpecClaude
  /\ WF_vars(G2ReplyFrom(FALSE))
  /\ SF_vars(G2ThinkTick)
  /\ SF_vars(G2StreamTick)
  /\ SF_vars(G2PollTick)
  /\ SF_vars(G2WaitTimeout)

\* ------------------------------------------------------------------------
\* SpecFailure: a turn with the agent messages and the error objects the
\* server may send
\* ------------------------------------------------------------------------
MaxFailureDeltas == 1

ErrorObjects ==
  {NoParams,
   ErrorParams(TRUE, Field(FALSE, <<>>), Field(TRUE, <<"m">>)),
   ErrorParams(TRUE, Field(TRUE, <<"e">>), Field(TRUE, <<"m">>)),
   ErrorParams(TRUE, Field(TRUE, <<" ">>), Field(FALSE, <<>>))}

\* texts of completed agent messages: plain, with a control character and
\* a trailing space, blank
AgentTexts == {<<"s">>, <<"^", "s", " ">>, <<" ">>}

FailureBounds ==
  [calls |-> MaxTurnCalls, presses |-> MaxTurnPresses, sockets |-> MaxTurnSockets,
   deltas |-> MaxFailureDeltas, snapshots |-> AgentTexts, errors |-> ErrorObjects]

FailConnectButton == ConnectButtonStep(FailureBounds)
FailGesture == GestureStep(FailureBounds)
FailAudio == AudioStep(FailureBounds)
FailBridgeReply == BridgeReplyStep(FailureBounds)
FailSocketOpen == SocketOpenStep(FailureBounds)
FailSocketError == SocketErrorStep(FailureBounds)
FailResponse == ResponseStep(FailureBounds)
FailNotification == NotificationStep(FailureBounds)
FailStreamTick == StreamTickStep(FailureBounds)
FailStallTick == StallTickStep(FailureBounds)
FailThinkingTick == ThinkingTickStep(FailureBounds)
FailSocketClosed == SocketClosedStep(FailureBounds)

NextFailure ==
  \/ FailConnectButton
  \/ FailGesture
  \/ FailAudio
  \/ FailBridgeReply
  \/ FailSocketOpen
  \/ FailSocketError
  \/ FailResponse
  \/ FailNotification
  \/ FailStreamTick
  \/ FailStallTick
  \/ FailThinkingTick
  \/ FailSocketClosed

SpecFailure == InitCodex /\ [][NextFailure]_vars

\* ------------------------------------------------------------------------
\* SpecAudio: the microphone buffer and the WAV encoder, the same code in
\* both apps. A byte is a number in 0..255, a chunk a sequence of bytes, a
\* Blob the sequence of its bytes.
\* ------------------------------------------------------------------------
MaxChunks == 3
PCM_SAMPLE_RATE == 16000

\* the ASCII codes writeWavString stores for a tag
WavTag(tag) ==
  CASE tag = "RIFF" -> <<82, 73, 70, 70>>
    [] tag = "WAVE" -> <<87, 65, 86, 69>>
    [] tag = "fmt " -> <<102, 109, 116, 32>>
    [] tag = "data" -> <<100, 97, 116, 97>>

\* DataView.setUint16 / setUint32 with littleEndian = true: least significant
\* byte first. The values written stay below 2^31, where the reduction
\* modulo 2^32 of setUint32 changes nothing.
setUint16(v) == <<v % 256, (v \div 256) % 256>>
setUint32(v) ==
  <<v % 256, (v \div 256) % 256, (v \div 65536) % 256, (v \div 16777216) % 256>>

\* the first loop of buildWavBlob: totalBytes += chunk.length
RECURSIVE totalBytesOf(_)
totalBytesOf(pcmChunks) ==
  IF pcmChunks = <<>> THEN 0
  ELSE Len(Head(pcmChunks)) + totalBytesOf(Tail(pcmChunks))

\* the second loop: merged.set(chunk, offset); offset += chunk.length
RECURSIVE mergeChunks(_)
mergeChunks(pcmChunks) ==
  IF pcmChunks = <<>> THEN <<>>
  ELSE Head(pcmChunks) \o mergeChunks(Tail(pcmChunks))

buildWavBlobReversed(pcmChunks) ==
  LET totalBytes == totalBytesOf(pcmChunks)
      header == WavTag("RIFF") \o setUint32(36 + totalBytes) \o WavTag("WAVE")
                \o WavTag("fmt ") \o setUint32(16) \o setUint16(1) \o setUint16(1)
                \o setUint32(PCM_SAMPLE_RATE) \o setUint32(PCM_SAMPLE_RATE * 2)
                \o setUint16(2) \o setUint16(16)
                \o WavTag("data") \o setUint32(totalBytes)
  IN header \o mergeChunks([k \in DOMAIN pcmChunks |->
                              pcmChunks[Len(pcmChunks) + 1 - k]])

\* buildWavBlob(pcmChunks): new Blob([header, merged])
buildWavBlob(pcmChunks) ==
  LET totalBytes == totalBytesOf(pcmChunks)
      header == WavTag("RIFF") \o setUint32(36 + totalBytes) \o WavTag("WAVE")
                \o WavTag("fmt ") \o setUint32(16) \o setUint16(1) \o setUint16(1)
                \o setUint32(PCM_SAMPLE_RATE) \o setUint32(PCM_SAMPLE_RATE * 2)
                \o setUint16(2) \o setUint16(16)
                \o WavTag("data") \o setUint32(totalBytes)
  IN header \o mergeChunks(pcmChunks)

\* the audio branch of the onEvenHubEvent handler (the Codex app also asks
\* for screen = root, which a recording view implies)
onAudioEvent(s, pcm) ==
  IF s.viewState = "recording" /\ Len(pcm) > 0
  THEN [s EXCEPT !.pcmAudioChunks = Append(@, pcm), !.pcmAudioBytes = @ + Len(pcm)]
  ELSE s

AudioOutcome(outcome, blob, input) == [outcome |-> outcome, blob |-> blob, input |-> input]

\* stopRecordingToBlob after `await bridge.audioControl(false)`: the new
\* state and what the caller gets
stopRecordingToBlobKeepShort(s) ==
  LET s1 == [s EXCEPT !.micOpen = FALSE]
      s2 == [s1 EXCEPT !.pcmAudioChunks = <<>>, !.pcmAudioBytes = 0]
  IN IF s.pcmAudioBytes < MIN_PCM_AUDIO_BYTES
     THEN [s |-> s1, out |-> AudioOutcome("noAudio", <<>>, s.pcmAudioChunks)]
     ELSE [s |-> s2,
           out |-> AudioOutcome("blob", buildWavBlob(s.pcmAudioChunks), s.pcmAudioChunks)]

stopRecordingToBlob(s) ==
  LET s1 == [s EXCEPT !.micOpen = FALSE, !.pcmAudioChunks = <<>>, !.pcmAudioBytes = 0]
      blob == buildWavBlob(s.pcmAudioChunks)
  IN IF s.pcmAudioBytes < MIN_PCM_AUDIO_BYTES
     THEN [s |-> s1, out |-> AudioOutcome("noAudio", <<>>, s.pcmAudioChunks)]
     ELSE IF Len(blob) = 0
     THEN [s |-> s1, out |-> AudioOutcome("empty", <<>>, s.pcmAudioChunks)]
     ELSE [s |-> s1, out |-> AudioOutcome("blob", blob, s.pcmAudioChunks)]

\* a chunk of len bytes whose content depends on its position
Pcm(len, seed) == [i \in 1..len |-> (i * seed + len) % 256]

\* what an audio event may carry
PcmInputs == {Pcm(0, 1), Pcm(1, 3), Pcm(99, 5), Pcm(100, 7), Pcm(200, 11), Pcm(15800, 13)}

\* after startRecording: microphone open, buffer empty, view recording
InitAudio ==
  /\ state = [viewState |-> "recording", micOpen |-> TRUE,
              pcmAudioChunks |-> <<>>, pcmAudioBytes |-> 0]
  /\ flows = <<>>
  /\ obs = AudioOutcome("none", <<>>, <<>>)
  /\ InitClient

\* the glasses deliver an audio event
AudioEvent ==
  /\ Len(state.pcmAudioChunks) < MaxChunks
  /\ \E pcm \in PcmInputs : state' = onAudioEvent(state, pcm)
  /\ UNCHANGED <<rpcVars, last, flows, obs>>

\* a double tap while recording: the view becomes transcribing, the page is
\* rendered and stopRecordingToBlob runs up to its await
AudioStop ==
  /\ state.viewState = "recording" /\ flows = <<>>
  /\ state' = [state EXCEPT !.viewState = "transcribing"]
  /\ IF state.micOpen
     THEN flows' = <<"audioControl">> /\ obs' = obs
     ELSE flows' = flows /\ obs' = AudioOutcome("notActive", <<>>, <<>>)
  /\ UNCHANGED <<rpcVars, last>>

\* the bridge answers audioControl(false)
AudioStopReply ==
  /\ flows = <<"audioControl">>
  /\ state' = stopRecordingToBlob(state).s
  /\ obs' = stopRecordingToBlob(state).out
  /\ flows' = <<>>
  /\ UNCHANGED <<rpcVars, last>>

NextAudio == AudioEvent \/ AudioStop \/ AudioStopReply

SpecAudio == InitAudio /\ [][NextAudio]_vars

\* ------------------------------------------------------------------------
\* SpecHistory: everything that writes state.conversationHistory: the append
\* of a finished turn (both apps), the history read from a resumed thread
\* and the reset by a new thread (Codex) or by resetToIdle (G2 Claude)
\* ------------------------------------------------------------------------
MaxAppends == 11
MaxRestores == 1
MaxThreadTurns == 12

\* parts.join('\n')
RECURSIVE joinLines(_)
joinLines(parts) ==
  IF parts = <<>> THEN <<>>
  ELSE IF Len(parts) = 1 THEN Head(parts)
  ELSE Head(parts) \o <<"\n">> \o joinLines(Tail(parts))

\* the loop of extractUserTextFromContent: the trimmed non-empty texts
RECURSIVE textParts(_)
textParts(content) ==
  IF content = <<>> THEN <<>>
  ELSE LET trimmed == trimEnd(trimStart(Head(content)))
       IN (IF trimmed # <<>> THEN <<trimmed>> ELSE <<>>) \o textParts(Tail(content))

extractUserTextFromContent(content) == sanitizeDisplayText(joinLines(textParts(content)))

\* the loop over turn.items with its two accumulators
RECURSIVE scanItems(_, _, _)
scanItems(items, prompt, response) ==
  IF items = <<>> THEN [prompt |-> prompt, response |-> response]
  ELSE LET item == Head(items)
           parsedPrompt == extractUserTextFromContent(item.content)
           text == sanitizeDisplayText(item.text)
       IN IF item.type = "userMessage"
          THEN scanItems(Tail(items), IF parsedPrompt # <<>> THEN parsedPrompt ELSE prompt,
                         response)
          ELSE IF item.type = "agentMessage" /\ text # <<>>
          THEN scanItems(Tail(items), prompt,
                         IF response # <<>> THEN response \o <<"\n">> \o text ELSE text)
          ELSE scanItems(Tail(items), prompt, response)

\* the loop over thread.turns
RECURSIVE scanTurns(_)
scanTurns(turns) ==
  IF turns = <<>> THEN <<>>
  ELSE LET pair == scanItems(Head(turns), <<>>, <<>>)
       IN (IF pair.prompt # <<>> /\ pair.response # <<>> THEN <<pair>> ELSE <<>>)
          \o scanTurns(Tail(turns))

\* extractConversationHistoryFromThread(thread), thread.turns being an array
extractConversationHistoryFromThread(turns) ==
  LET history == scanTurns(turns)
  IN IF Len(history) > MAX_HISTORY_TURNS
     THEN SubSeq(history, Len(history) - MAX_HISTORY_TURNS + 1, Len(history))
     ELSE history

\* texts that differ from turn to turn
Letters == <<"a", "b", "c", "d", "e", "f", "g", "h", "i", "j", "k", "l", "m">>

\* the prompt and the response of the n-th finished turn: plain, with a
\* control character to clean, or empty after cleaning
TurnTexts(n) ==
  {[prompt |-> <<"p", Letters[n]>>, response |-> <<"r", Letters[n]>>],
   [prompt |-> <<"^", "p", Letters[n]>>, response |-> <<"r", Letters[n], " ">>],
   [prompt |-> <<"p", Letters[n]>>, response |-> <<"^">>]}

UserMessage(content) == [type |-> "userMessage", content |-> content, text |-> <<>>]
AgentMessage(text) == [type |-> "agentMessage", content |-> <<>>, text |-> text]

\* the items of the k-th turn of a stored thread; the turn `odd` has no
\* agent text and yields no pair
ThreadTurn(k, odd) ==
  IF k = odd THEN <<UserMessage(<<<<"q", Letters[k]>>>>), AgentMessage(<<"^">>)>>
  ELSE <<UserMessage(<<<<" ">>, <<"q", Letters[k], " ">>>>),
         AgentMessage(<<"s", Letters[k]>>), AgentMessage(<<"t">>)>>

Threads ==
  {[k \in 1..n |-> ThreadTurn(k, odd)] : n \in {0, 1, MaxThreadTurns - 1, MaxThreadTurns},
                                        odd \in {0, 1}}

HistoryObs(op, pair, appends, restores) ==
  [op |-> op, pair |-> pair, appends |-> appends, restores |-> restores]

NoPair == [prompt |-> <<>>, response |-> <<>>]

InitHistory ==
  /\ state = [conversationHistory |-> <<>>]
  /\ flows = <<>>
  /\ obs = HistoryObs("none", NoPair, 0, 0)
  /\ InitClient

\* a turn ends: finalizeCompletedTurn (Codex) or the last stream tick (G2)
\* appends its prompt and response
HistoryAppend ==
  /\ obs.appends < MaxAppends
  /\ \E pair \in TurnTexts(obs.appends + 1) :
       /\ state' = [state EXCEPT !.conversationHistory =
                       appendConversationTurn(@, pair.prompt, pair.response)]
       /\ obs' = HistoryObs("append", pair, obs.appends + 1, obs.restores)
  /\ UNCHANGED <<rpcVars, last, flows>>

\* resumeThread: thread/resume answered with a stored thread
HistoryRestore ==
  /\ obs.restores < MaxRestores
  /\ \E turns \in Threads :
       state' = [state EXCEPT !.conversationHistory =
                    extractConversationHistoryFromThread(turns)]
  /\ obs' = HistoryObs("restore", NoPair, obs.appends, obs.restores + 1)
  /\ UNCHANGED <<rpcVars, last, flows>>

\* startNewThread, or resetToIdle with clearHistory
HistoryClear ==
  /\ state.conversationHistory # <<>>
  /\ obs.appends < MaxAppends
  /\ state' = [state EXCEPT !.conversationHistory = <<>>]
  /\ obs' = HistoryObs("clear", NoPair, obs.appends, obs.restores)
  /\ UNCHANGED <<rpcVars, last, flows>>

NextHistory == HistoryAppend \/ HistoryRestore \/ HistoryClear

SpecHistory == InitHistory /\ [][NextHistory]_vars

\* ------------------------------------------------------------------------
\* Claims about the Codex controller
\* ------------------------------------------------------------------------
IsInitialized(i) ==
  \E j \in 1..(i - 1) : /\ sent[j].sock = sent[i].sock
                        /\ sent[j].kind = "notification"
                        /\ sent[j].method = "initialized"

\* C5: on every connection the first frame is initialize, initialized follows
\* only once initialize has its result, and no other Request is sent on the
\* connection before initialized, whatever the user does in between.
C5_HandshakeBeforeAnyRequest ==
  \A i \in DOMAIN sent :
    /\ (\A j \in 1..(i - 1) : sent[j].sock # sent[i].sock) =>
         sent[i].kind = "request" /\ sent[i].method = "initialize"
    /\ (sent[i].kind = "notification" /\ sent[i].method = "initialized") =>
         \E c \in DOMAIN calls : /\ calls[c].sock = sent[i].sock
                                 /\ calls[c].method = "initialize"
                                 /\ calls[c].outcome = "resolved"
    /\ (sent[i].kind = "request" /\ sent[i].method # "initialize") => IsInitialized(i)

InTurn(view) == view \in {"waiting", "streaming"}

Last(seq) == seq[Len(seq)]

\* C9: when a turn's stream is finalized (the view goes from waiting or
\* streaming to displaying on a tick or a notification), the buffer of pending
\* text is empty and, if deltas came, the shown text is their concatenation,
\* which is what the history records; and no tick of a running turn shortens
\* the shown text.
C9_DisplayingOnlyAfterDrain ==
  [][/\ ((TurnStreamTick \/ TurnStallTick \/ TurnNotification)
           /\ InTurn(state.viewState) /\ state'.viewState = "displaying") =>
          /\ state.pendingDelta = <<>>
          /\ obs.turnDeltas # <<>> =>
               /\ state.streamingText = obs.turnDeltas
               /\ sanitizeDisplayText(obs.turnDeltas) # <<>> =>
                    /\ state'.conversationHistory # <<>>
                    /\ Last(state'.conversationHistory).response
                         = sanitizeDisplayText(obs.turnDeltas)
     /\ ((TurnStreamTick \/ TurnStallTick)
           /\ InTurn(state.viewState) /\ InTurn(state'.viewState)) =>
          /\ Len(state'.streamingText) >= Len(state.streamingText)
          /\ SubSeq(state'.streamingText, 1, Len(state.streamingText)) = state.streamingText
    ]_vars

\* C9 witness: two deltas, 18 characters, were shown in three ticks and the
\* turn is on display with them as its response
C9_Witness ==
  /\ state.viewState = "displaying"
  /\ Len(obs.turnDeltas) = 18
  /\ state.conversationHistory # <<>>
  /\ Last(state.conversationHistory).response = sanitizeDisplayText(obs.turnDeltas)
  /\ Last(state.conversationHistory).prompt = <<"p">>

HasVisible(t) == sanitizeDisplayText(t) # <<>>

\* C10: a stall tick in waiting or streaming puts the controller into error,
\* and the text received so far, if any of it is visible, is kept: recorded as
\* the response of the turn in the history, or still buffered for that.
C10_StallEntersErrorKeepingPartial ==
  [][(TurnStallTick /\ InTurn(state.viewState)) =>
       /\ state'.viewState = "error"
       /\ HasVisible(state.streamingText \o state.pendingDelta) =>
            \/ /\ state'.conversationHistory # <<>>
               /\ Last(state'.conversationHistory).response
                    = sanitizeDisplayText(state.streamingText \o state.pendingDelta)
            \/ state'.streamingText \o state'.pendingDelta
                 = state.streamingText \o state.pendingDelta]_vars

\* the controller state the epoch protects: view state, text buffers, active
\* request and conversation history
Guarded(s) ==
  <<s.viewState, s.currentPrompt, s.currentResponse, s.streamingText, s.streamCharsIndex,
    s.pendingPrompt, s.activeRequestId, s.conversationHistory>>

StaleActor(a, s) ==
  a.kind \in {"turn", "timer", "poll", "timeout"} /\ a.epoch < s.runVersion

\* C8: once the run version has been incremented mid-turn, no step of a
\* ticker, poll or timeout callback, or of the continuation of the turn
\* (stopRecordingAndSend and its handler), that was started under an older run
\* version changes the view state, the text buffers, the active request or
\* the conversation history.
C8_StaleWorkMutatesNothing ==
  [][StaleActor(obs'.actor, state') => Guarded(state') = Guarded(state)]_vars

\* C11: a turn never hangs: from waiting or streaming the controller
\* eventually leaves for displaying, idle or error, with fair timers and
\* bridge, whatever the server does or omits.
C11_TurnNeverHangs == InTurn(state.viewState) ~> ~InTurn(state.viewState)

\* C12: every step into the recording view leaves idle or displaying.
C12_RecordingOnlyFromIdleOrDisplaying ==
  [][(state'.viewState = "recording" /\ state.viewState # "recording") =>
       state.viewState \in {"idle", "displaying"}]_vars

\* C13: a notification, a timer callback or the completion of an RPC call
\* that finds the controller in error leaves it in error.
C13_ErrorStaysUntilUserActs ==
  [][((TurnNotification \/ TurnStreamTick \/ TurnStallTick \/ TurnResponse)
        /\ state.viewState = "error") => state'.viewState = "error"]_vars

\* C14: every step that takes the controller out of error takes it to
\* connecting (the start of a full reconnect); error is never left directly
\* to idle, displaying, list or recording.
C14_ErrorLeftOnlyToConnecting ==
  [][(state.viewState = "error" /\ state'.viewState # "error") =>
       state'.viewState = "connecting"]_vars

\* C14, user path only: a gesture made while the view is error either leaves
\* it in error or takes it to connecting.
C14_GestureLeavesErrorToConnecting ==
  [][(TurnGesture /\ state.viewState = "error") =>
       state'.viewState \in {"error", "connecting"}]_vars

\* the replies to server requests handed to ws.send, in order
Replies == SelectSeq(sent, LAMBDA fr : fr.kind \in {"result", "error"})

\* the k-th request of the server has the k-th reply, with the same id
RepliedInOrder ==
  /\ Len(Replies) = Len(ServerRequests(Cur))
  /\ \A k \in DOMAIN Replies : Replies[k].id = ServerRequests(Cur)[k].id

LastServerRequest == ServerRequests(Cur)[Len(ServerRequests(Cur))]

CallErrors == {"timeout", "connectionClosed", "rpcError"}

\* C17: when a turn/start or turn/interrupt call fails with a timeout, a
\* closed connection or an RPC error, the step in which the failure reaches
\* the controller leaves it in error (not in waiting, streaming or
\* transcribing, and not with the error handed on to the caller).
C17_TurnCallFailureEndsInError ==
  [][\A i \in DOMAIN reqs :
       (/\ reqs[i].method \in {"turn/start", "turn/interrupt"}
        /\ reqs[i].phase # "failed"
        /\ reqs'[i].phase = "failed"
        /\ reqs'[i].err \in CallErrors) => state'.viewState = "error"]_vars

\* C17, gesture handler only: the same, for a call awaited on behalf of a
\* click or double click on the glasses.
C17_GestureCallFailureEndsInError ==
  [][\A i \in DOMAIN reqs :
       (/\ reqs[i].method \in {"turn/start", "turn/interrupt"}
        /\ reqs[i].phase # "failed"
        /\ reqs'[i].phase = "failed"
        /\ reqs'[i].err \in CallErrors
        /\ \E k \in DOMAIN flows : flows[k].req = i /\ flows[k].caller = "gesture")
       => state'.viewState = "error"]_vars

\* C18: in every state whose view is error the microphone is closed and
\* neither the stream-drain ticker nor the thinking ticker is scheduled.
C18_ErrorStopsMicAndTickers ==
  state.viewState = "error" =>
    /\ ~state.micOpen
    /\ ~state.streamIntervalId
    /\ ~state.thinkingIntervalId

\* C18, tickers only
C18_ErrorStopsTickers ==
  state.viewState = "error" => ~state.streamIntervalId /\ ~state.thinkingIntervalId

CloseEvents(s) == {k \in DOMAIN closeLog : closeLog[k].sock = s}

\* C19: the close handler runs at most once for a socket, once for every
\* socket that has closed after it opened, and its tag is unexpected=true
\* exactly when the client never called close() on that socket.
C19_CloseEventOncePerSocketTagged ==
  /\ \A s \in Sockets :
       /\ Cardinality(CloseEvents(s)) <= 1
       /\ (s \in listeners /\ readyState[s] = "closed") => CloseEvents(s) # {}
  /\ \A k \in DOMAIN closeLog :
       closeLog[k].unexpected <=> closeLog[k].sock \notin closeCalled

\* C19, the count alone
C19_CloseEventOncePerSocket ==
  \A s \in Sockets :
    /\ Cardinality(CloseEvents(s)) <= 1
    /\ (s \in listeners /\ readyState[s] = "closed") => CloseEvents(s) # {}

\* C20: request() makes at most 3 attempts, and after the third overloaded
\* error it has failed with that error; every attempt carries an id that no
\* earlier call of the client carried; and when a retry exists, the attempts
\* before it are settled and their PendingRequests are gone.
C20_ThreeAttemptsFreshIds ==
  /\ \A i \in DOMAIN reqs :
       /\ Cardinality(ReqCalls(i)) <= maxAttempts
       /\ Len(reqs[i].errs) <= maxAttempts
       /\ (Len(reqs[i].errs) = maxAttempts /\ reqs[i].errs[maxAttempts] = "overloaded") =>
            /\ reqs[i].phase = "failed"
            /\ reqs[i].err = "overloaded"
            /\ Cardinality(ReqCalls(i)) = maxAttempts
       /\ \A c1, c2 \in ReqCalls(i) : c1 < c2 => Settled(c1) /\ ~HasEntry(c1)
  /\ \A c1, c2 \in DOMAIN calls :
       (c1 < c2 /\ calls[c2].req # 0) => calls[c1].id # calls[c2].id

\* C20 witness: a request() that failed on its third overloaded error
C20_Witness ==
  \E i \in DOMAIN reqs :
    /\ reqs[i].phase = "failed"
    /\ reqs[i].errs = <<"overloaded", "overloaded", "overloaded">>
    /\ Cardinality(ReqCalls(i)) = 3
\* C21: a stale-operation signal is swallowed where it is detected: from the
\* point of detection to the end of the task the view does not change (so it
\* is not moved to error), and the timers and the buffers of the run that is
\* current stay as they were.
C21_StaleSignalSwallowed ==
  [][obs'.stale.seen => RunOwned(state', obs'.timers) = obs'.stale.at]_vars

\* a continuation of an older run met its stale signal while the newer run
\* had something to lose
C21_Witness ==
  /\ obs.stale.seen
  /\ obs.actor.epoch < state.runVersion
  /\ state.viewState \in {"recording", "waiting", "streaming"}

\* the socket call c was issued on was not open when c was issued
NotConnected(c) == calls[c].sock = 0 \/ readyState[calls[c].sock] # "open"

\* C22: a call issued while the channel is not connected fails at once with
\* the not-connected error, and the table of pending requests and the set of
\* armed timeout timers are after the call what they were before it.
C22_NotConnectedCallLeavesNothing ==
  [][\A c \in (DOMAIN calls') \ (DOMAIN calls) :
       NotConnected(c)' =>
         /\ calls'[c].outcome = "notConnected" /\ calls'[c].settles = 1
         /\ pending' = pending /\ timers' = timers]_vars

\* a call was issued on a client without an open socket while an earlier
\* call was pending, and that one still is
C22_Witness ==
  \E c \in DOMAIN calls :
    /\ calls[c].outcome = "notConnected"
    /\ \E e \in pending : e.call < c

\* DataView.getUint32(at, true) of a Blob, `at` counted from 0
getUint32(blob, at) ==
  blob[at + 1] + 256 * blob[at + 2] + 65536 * blob[at + 3] + 16777216 * blob[at + 4]

\* the number of bytes in the chunks before chunk k
RECURSIVE OffsetOf(_, _)
OffsetOf(chunks, k) == IF k = 1 THEN 0 ELSE OffsetOf(chunks, k - 1) + Len(chunks[k - 1])

\* C23: the container made from chunks of N bytes in all has 44 + N bytes,
\* its bytes 4-7 read as little-endian u32 give 36 + N, its bytes 40-43 give
\* N, and behind the header every byte of every chunk stands at the place it
\* has in the concatenation of the chunks in their order.
C23_WavContainerExact ==
  obs.outcome = "blob" =>
    LET chunks == obs.input
        N == OffsetOf(chunks, Len(chunks) + 1)
    IN /\ Len(obs.blob) = 44 + N
       /\ getUint32(obs.blob, 4) = 36 + N
       /\ getUint32(obs.blob, 40) = N
       /\ \A k \in DOMAIN chunks : \A j \in DOMAIN chunks[k] :
            obs.blob[44 + OffsetOf(chunks, k) + j] = chunks[k][j]

\* three chunks of 16000 bytes in all were encoded: 16044 bytes with the
\* fields 16036 and 16000
C23_Witness ==
  /\ obs.outcome = "blob" /\ Len(obs.input) = 3
  /\ Len(obs.blob) = 16044
  /\ getUint32(obs.blob, 4) = 16036 /\ getUint32(obs.blob, 40) = 16000

\* the bytes buffered in the chunks
BufferedBytes(chunks) == OffsetOf(chunks, Len(chunks) + 1)

\* C24: when stopRecordingToBlob goes on after closing the microphone, fewer
\* than 200 buffered bytes give the no-audio error and no container, 200 or
\* more give a container; either way the buffer is empty, the counter 0 and
\* the microphone marked closed afterwards.
C24_ShortRecordingRefusedBufferCleared ==
  [][(flows = <<"audioControl">> /\ flows' = <<>>) =>
       /\ BufferedBytes(state.pcmAudioChunks) < 200 =>
            obs'.outcome = "noAudio" /\ obs'.blob = <<>>
       /\ BufferedBytes(state.pcmAudioChunks) >= 200 =>
            obs'.outcome = "blob" /\ Len(obs'.blob) >= 44
       /\ state'.pcmAudioChunks = <<>> /\ state'.pcmAudioBytes = 0
       /\ ~state'.micOpen]_vars

\* a recording of 100 bytes was stopped and refused
C24_Witness ==
  /\ obs.outcome = "noAudio" /\ BufferedBytes(obs.input) = 100
  /\ state.pcmAudioChunks = <<>> /\ ~state.micOpen

\* C25: the history never holds more than 10 pairs, and an append to a
\* history of 10 pairs (of a pair that is not empty once cleaned) drops the
\* first pair, keeps the other nine in their order and puts the new pair,
\* cleaned, last.
C25_HistoryCappedOldestEvicted ==
  /\ [](Len(state.conversationHistory) <= 10)
  /\ [][(/\ obs'.op = "append"
          /\ Len(state.conversationHistory) = 10
          /\ sanitizeDisplayText(obs'.pair.prompt) # <<>>
          /\ sanitizeDisplayText(obs'.pair.response) # <<>>) =>
           /\ Len(state'.conversationHistory) = 10
           /\ \A i \in 1..9 :
                state'.conversationHistory[i] = state.conversationHistory[i + 1]
           /\ state'.conversationHistory[10] =
                [prompt |-> sanitizeDisplayText(obs'.pair.prompt),
                 response |-> sanitizeDisplayText(obs'.pair.response)]]_vars

\* the eleventh turn was appended to ten pairs kept from turns 1 to 10
C25_Witness ==
  /\ obs.op = "append" /\ obs.appends = 11
  /\ Len(state.conversationHistory) = 10
  /\ state.conversationHistory[1].prompt = <<"p", "b">>
  /\ state.conversationHistory[10].prompt = <<"p", "k">>

\* what a tick that is not a stall tick does to non-empty pending text: its
\* first min(8, length) characters go to the end of the shown text
DrainsEight ==
  (TurnStreamTick /\ state.pendingDelta # <<>>) =>
    LET n == IF Len(state.pendingDelta) < 8 THEN Len(state.pendingDelta) ELSE 8
    IN /\ state'.streamingText = state.streamingText \o SubSeq(state.pendingDelta, 1, n)
       /\ state'.pendingDelta = SubSeq(state.pendingDelta, n + 1, Len(state.pendingDelta))

\* C26 as stated: each tick with pending text moves its first min(8, length)
\* characters to the end of the shown text, and throughout a turn the shown
\* text followed by the pending text is the concatenation of the deltas
\* received in the turn.
C26_ShownThenPendingIsTheDeltas ==
  /\ [](InTurn(state.viewState) =>
          state.streamingText \o state.pendingDelta = obs.turnDeltas)
  /\ [][DrainsEight]_vars

\* C26 amended: the same, except that after turn/completed of a turn without
\* any delta the shown text followed by the pending text is the cleaned text
\* of the last completed agent message.
C26_ShownThenPendingIsDeltasOrSnapshot ==
  /\ [](InTurn(state.viewState) =>
          \/ state.streamingText \o state.pendingDelta = obs.turnDeltas
          \/ /\ obs.turnDeltas = <<>> /\ state.turnCompletedPending
             /\ state.streamingText \o state.pendingDelta
                  = sanitizeDisplayText(state.lastAgentMessageSnapshot))
  /\ [][DrainsEight]_vars

\* two deltas of 10 characters in all came, a tick has shown the first 8
\* and 2 are pending
C26_Witness ==
  /\ state.viewState = "streaming"
  /\ Len(obs.turnDeltas) = 10
  /\ Len(state.streamingText) = 8 /\ Len(state.pendingDelta) = 2
  /\ state.streamingText \o state.pendingDelta = obs.turnDeltas

\* a tick that is not a stall tick finds no pending text and the completion
\* flag set
FinalizingTick == TurnStreamTick /\ state.pendingDelta = <<>> /\ state.turnCompletedPending

\* the turn is cleared, both tickers are stopped, the view is displaying
TurnClearedOnDisplay ==
  /\ state'.currentPrompt = <<>> /\ state'.streamingText = <<>>
  /\ state'.pendingDelta = <<>> /\ state'.currentResponse = <<>>
  /\ ~state'.turnCompletedPending /\ state'.activeTurnId = 0
  /\ ~state'.streamIntervalId /\ ~state'.thinkingIntervalId
  /\ state'.viewState = "displaying"

\* C27 as stated: such a tick appends the pair (prompt, shownText) to the
\* history, clears the turn (prompt, buffers, completion flag, active turn
\* id), stops the stream and thinking tickers and enters displaying.
C27_TickFinalizesWithShownText ==
  [][FinalizingTick =>
       /\ state'.conversationHistory # <<>>
       /\ Last(state'.conversationHistory)
            = [prompt |-> state.currentPrompt, response |-> state.streamingText]
       /\ Len(state'.conversationHistory) = Len(state.conversationHistory) + 1
       /\ TurnClearedOnDisplay]_vars

\* C27 amended: the pair appended is the prompt with the shown text cleaned
\* for display (control characters to spaces, trimmed), and no pair is
\* appended when nothing of the shown text is left after cleaning or the
\* prompt is empty; the shown text itself is never empty at such a tick.
C27_TickFinalizesWithCleanedText ==
  [][FinalizingTick =>
       /\ state.streamingText # <<>>
       /\ IF /\ sanitizeDisplayText(state.streamingText) # <<>>
             /\ sanitizeDisplayText(state.currentPrompt) # <<>>
          THEN /\ state'.conversationHistory # <<>>
               /\ Last(state'.conversationHistory)
                    = [prompt |-> sanitizeDisplayText(state.currentPrompt),
                       response |-> sanitizeDisplayText(state.streamingText)]
               /\ Len(state'.conversationHistory) = Len(state.conversationHistory) + 1
          ELSE state'.conversationHistory = state.conversationHistory
       /\ TurnClearedOnDisplay]_vars

\* a finished turn whose shown text had a control character is on display,
\* recorded with the cleaned text
C27_Witness ==
  /\ state.viewState = "displaying" /\ ~state.streamIntervalId
  /\ Len(obs.turnDeltas) = 9
  /\ state.conversationHistory # <<>>
  /\ Last(state.conversationHistory)
       = [prompt |-> <<"p">>, response |-> <<"b", "b", "b", "b", "b", "b", "b", "c">>]

\* the step is the arrival of a delta notification; its text is what the
\* record of the turn's deltas grew by
DeltaArrives == TurnNotification /\ obs'.serverDeltas = obs.serverDeltas + 1

DeltaText == SubSeq(obs'.turnDeltas, Len(obs.turnDeltas) + 1, Len(obs'.turnDeltas))

DeltaAppended ==
  DeltaArrives => (/\ DeltaText # <<>>
                   /\ state'.pendingDelta = state.pendingDelta \o DeltaText)

\* C28 as stated: a delta with text is appended to the end of the pending
\* text, and the first one of a turn (nothing shown yet, view waiting) moves
\* the controller from waiting to streaming.
C28_FirstDeltaEntersStreaming ==
  [][/\ DeltaAppended
     /\ (DeltaArrives /\ state.viewState = "waiting" /\ obs.turnDeltas = <<>>) =>
          state'.viewState = "streaming"]_vars

\* C28 amended: the delta is appended and leaves the view as it is; while
\* the view is waiting with pending text the stream ticker is armed, and the
\* next tick that is not a stall tick moves the view from waiting to streaming.
C28_FirstTickAfterDeltaEntersStreaming ==
  /\ [][/\ DeltaAppended
         /\ (DeltaArrives => state'.viewState = state.viewState)
         /\ (TurnStreamTick /\ state.viewState = "waiting" /\ state.pendingDelta # <<>>) =>
              state'.viewState = "streaming"]_vars
  /\ []((state.viewState = "waiting" /\ state.pendingDelta # <<>>) => state.streamIntervalId)

\* the first delta of the turn is pending and the view is still waiting
C28_Witness ==
  /\ state.viewState = "waiting"
  /\ obs.turnDeltas # <<>> /\ state.pendingDelta = obs.turnDeltas
  /\ state.streamingText = <<>> /\ obs.serverDeltas = 1

\* the texts with something visible that an error object holds
SuppliedMessages(params) ==
  {f.text : f \in {g \in {params.error, params.message} :
                     params.present /\ g.has /\ trim(g.text) # <<>>}}

\* C29: when turn/completed with a status other than completed, or an error
\* notification, is handled, the buffers, the prompt, the completion flag and
\* the active turn id are cleared, the history is what it was, the view is
\* error, and the error detail is a message the server supplied, if it
\* supplied one.
C29_FailedTurnAbandoned ==
  [][\A n \in Failures(ErrorObjects) :
       NotificationOfStep(n, FailureBounds) =>
         /\ state'.pendingDelta = <<>> /\ state'.streamingText = <<>>
         /\ state'.currentResponse = <<>> /\ state'.lastAgentMessageSnapshot = <<>>
         /\ state'.currentPrompt = <<>>
         /\ ~state'.turnCompletedPending /\ state'.activeTurnId = 0
         /\ state'.conversationHistory = state.conversationHistory
         /\ state'.viewState = "error"
         /\ SuppliedMessages(n.params) # {} =>
              obs'.errorDetail \in SuppliedMessages(n.params)]_vars

\* a turn that had shown and pending text failed with a message of the
\* server; nothing of it is left and the message is the error detail
C29_Witness ==
  /\ state.viewState = "error" /\ obs.errorDetail = <<"e">>
  /\ Len(obs.turnDeltas) = 9 /\ state.pendingDelta = <<>> /\ state.streamingText = <<>>
  /\ state.currentPrompt = <<>> /\ state.conversationHistory = <<>>

\* turn/completed with status completed is handled when nothing of the turn
\* is buffered or shown and an agent message of the turn has completed
CompletedWithoutText ==
  /\ NotificationOfStep(Notification("turn/completed", <<>>, "completed"), FailureBounds)
  /\ state.streamingText = <<>> /\ state.pendingDelta = <<>>
  /\ state.lastAgentMessageSnapshot # <<>>

\* a tick ends a turn that got no delta
FallbackFinalized ==
  /\ FailStreamTick /\ state.pendingDelta = <<>> /\ state.turnCompletedPending
  /\ obs.turnDeltas = <<>> /\ sanitizeDisplayText(state.currentPrompt) # <<>>

TurnBuffers(s) ==
  <<s.currentPrompt, s.currentResponse, s.streamingText, s.pendingDelta,
    s.lastAgentMessageSnapshot, s.turnCompletedPending, s.activeTurnId>>

ClearedTurnBuffers == <<<<>>, <<>>, <<>>, <<>>, <<>>, FALSE, 0>>

\* this step sends a turn/interrupt request
InterruptIssued ==
  /\ Len(calls') = Len(calls) + 1
  /\ calls'[Len(calls')].method = "turn/interrupt"
  /\ calls'[Len(calls')].outcome = "pending"

\* this step brings the result of the turn/interrupt request i
InterruptAnswered(i) ==
  /\ reqs[i].method = "turn/interrupt"
  /\ reqs[i].phase = "awaiting"
  /\ reqs'[i].phase = "resolved"

TurnUntouched ==
  /\ state'.viewState = state.viewState
  /\ TurnBuffers(state') = TurnBuffers(state)

\* C31 as stated: neither the step that sends turn/interrupt nor the step
\* that brings its result changes the view state or the turn buffers; only
\* the server's turn/completed (or the stall rule) resolves the turn.
C31_InterruptNeverChangesTheTurn ==
  [][/\ InterruptIssued => TurnUntouched
     /\ \A i \in DOMAIN reqs : InterruptAnswered(i) => TurnUntouched]_vars

\* C31, amended: the step that sends turn/interrupt changes neither the view
\* state nor the turn buffers. When the request was made by a double click or
\* by the action button its result changes nothing either; when it was made
\* by a click, the step that brings its result clears the turn buffers and
\* shows the thread list.
C31_InterruptChangesTheTurnOnlyAfterAClick ==
  [][/\ InterruptIssued => TurnUntouched
     /\ \A i \in DOMAIN reqs : \A k \in DOMAIN flows :
          (InterruptAnswered(i) /\ flows[k].req = i) =>
            IF flows[k].then = "toList"
            THEN /\ state'.viewState = "list" /\ state'.screen = "list"
                 /\ TurnBuffers(state') = ClearedTurnBuffers
            ELSE TurnUntouched]_vars

C31_Witness ==
  /\ \E c \in DOMAIN calls :
       calls[c].method = "turn/interrupt" /\ calls[c].outcome = "resolved"
  /\ state.viewState \in {"waiting", "streaming"}
  /\ state.activeTurnId # 0

\* ------------------------------------------------------------------------
\* The run version of the G2 Claude controller (SpecClaude)
\* ------------------------------------------------------------------------
\* this step is a user action: a click or double click that the handler
\* accepts, or the page's action button
UserActs == obs'.presses = obs.presses + 1

\* C32: every user-initiated reset (a new recording, a new turn, an explicit
\* reset) leaves state.runVersion strictly greater than it found it, and no
\* step ever decreases it.
C32_UserResetsBumpRunVersion ==
  [][/\ state'.runVersion >= state.runVersion
     /\ UserActs => state'.runVersion > state.runVersion]_vars

\* C32, resetToIdle only: the run version never decreases, and a click in
\* error or the action button (both run resetToIdle) increases it by one.
C32_ResetToIdleBumpsRunVersion ==
  [][/\ state'.runVersion >= state.runVersion
     /\ (UserActs /\ obs'.actor.kind = "reset") =>
          state'.runVersion = state.runVersion + 1]_vars

C32_ResetWitness ==
  /\ obs.actor.kind = "reset" /\ state.runVersion = 2
  /\ state.viewState = "idle"

\* ------------------------------------------------------------------------
\* SpecDispatch: the client with the handlers connectToCodex registers
\* before connect(), and a peer that sends responses, notifications,
\* requests of its own and malformed frames in any order. obs.arrived is the
\* sequence of the frames the 'message' listener was given, obs.callsAt the
\* number of calls made before each of them.
\* ------------------------------------------------------------------------
MaxInbound == 3
MaxDispatchCalls == 2
MaxDispatchReqs == 1

\* a frame that has a result and a method at once
ResultWithMethod ==
  [ResponseMsg(NumId(1), TRUE) EXCEPT !.hasMethod = TRUE, !.method = "turn/completed"]

DispatchFrames(st) ==
  ResponseMsgs(st) \cup MethodMsgs
  \cup {MethodMsg("item/tool/requestUserInput", TRUE, StrId(1)), ResultWithMethod}

InitDispatch ==
  /\ InitClient
  /\ state = InitState
  /\ flows = <<>>
  /\ obs = [arrived |-> <<>>, callsAt |-> <<>>]

DispConnect == Connect(FALSE)
DispSocketOpen == SocketOpen(MaxDispatchCalls)
DispRequest == Request(MaxDispatchCalls, MaxDispatchReqs)
DispTimeout == Timeout
DispSocketClosed == SocketClosed

\* the 'message' listener of an OPEN socket is given a frame
DispIncoming ==
  \E s \in listeners : \E msg \in DispatchFrames(Cur) :
    /\ readyState[s] = "open"
    /\ Len(obs.arrived) < MaxInbound
    /\ SetClient(handleIncoming(Cur, msg, 0))
    /\ obs' = [obs EXCEPT !.arrived = Append(@, msg), !.callsAt = Append(@, Len(calls))]
    /\ last' = NoEvent
    /\ UNCHANGED <<state, flows>>

NextDispatch ==
  \/ DispConnect
  \/ DispSocketOpen
  \/ DispRequest
  \/ DispTimeout
  \/ DispIncoming
  \/ DispSocketClosed

SpecDispatch == InitDispatch /\ [][NextDispatch]_vars

\* the three kinds of message, by the fields of the frame
IsResponseFrame(msg) == ~msg.garbage /\ (msg.hasResult \/ msg.hasError)
IsServerRequestFrame(msg) == ~msg.garbage /\ ~IsResponseFrame(msg) /\ msg.hasMethod /\ msg.hasId
IsNotificationFrame(msg) == ~msg.garbage /\ ~IsResponseFrame(msg) /\ msg.hasMethod /\ ~msg.hasId

\* the handler invocation a frame is due
HandlerCall(msg) ==
  IF msg.hasId THEN [kind |-> "serverRequest", method |-> msg.method, id |-> msg.id]
  ELSE [kind |-> "notification", method |-> msg.method, id |-> NumId(0)]

RECURSIVE HandlerCalls(_)
HandlerCalls(arrived) ==
  IF arrived = <<>> THEN <<>>
  ELSE (IF IsServerRequestFrame(Head(arrived)) \/ IsNotificationFrame(Head(arrived))
        THEN <<HandlerCall(Head(arrived))>> ELSE <<>>) \o HandlerCalls(Tail(arrived))

FrameArrives == Len(obs'.arrived) = Len(obs.arrived) + 1
ArrivedFrame == obs'.arrived[Len(obs'.arrived)]
CallTableKept == pending' = pending /\ calls' = calls /\ timers' = timers /\ reqs' = reqs

\* C33: the handler invocations are those due to the notifications and server
\* requests that arrived, in the order of arrival and one for each; and a
\* frame takes one route only: a frame with a result or an error goes to the
\* table of pending calls and invokes no handler, a frame with a method and an
\* id invokes the server-request handler and a frame with a method and no id
\* the notification handler, both leaving the table alone; any other frame
\* changes nothing.
C33_InboundRoutedOnceInOrder ==
  /\ [](delivered = HandlerCalls(obs.arrived))
  /\ [][FrameArrives =>
          LET msg == ArrivedFrame IN
          IF IsResponseFrame(msg) THEN delivered' = delivered
          ELSE IF IsServerRequestFrame(msg) \/ IsNotificationFrame(msg)
          THEN delivered' = Append(delivered, HandlerCall(msg)) /\ CallTableKept
          ELSE delivered' = delivered /\ CallTableKept]_vars

\* a server request, a response that settled a call and a notification have
\* arrived, in that order
C33_Witness ==
  /\ Len(obs.arrived) = 3
  /\ IsServerRequestFrame(obs.arrived[1])
  /\ IsResponseFrame(obs.arrived[2])
  /\ IsNotificationFrame(obs.arrived[3])
  /\ \E c \in DOMAIN calls : calls[c].req # 0 /\ calls[c].outcome = "resolved"
  /\ Len(delivered) = 2
  /\ delivered[1].kind = "serverRequest" /\ delivered[2].kind = "notification"

\* C34: the key of a pending call is the type of its id together with its
\* value: the keys of the number k and of the string k differ, and a call
\* leaves the pending state on the arrival of a frame only when that frame is
\* a response whose id has the type and the value of the id the call was
\* sent with.
C34_PendingKeyedByTypeAndValue ==
  /\ [](\A k \in 0..MaxDispatchCalls : requestKey(NumId(k)) # requestKey(StrId(k)))
  /\ [][FrameArrives =>
          \A c \in DOMAIN calls :
            (calls[c].outcome = "pending" /\ calls'[c].outcome # "pending") =>
              /\ IsResponseFrame(ArrivedFrame) /\ ArrivedFrame.hasId
              /\ ArrivedFrame.id.t = calls[c].id.t
              /\ ArrivedFrame.id.v = calls[c].id.v]_vars

\* a response with the string id 1 arrived after the call with the numeric
\* id 1 was sent, and that call is still pending
C34_Witness ==
  \E k \in DOMAIN obs.arrived : \E c \in DOMAIN calls :
    /\ obs.arrived[k] = ResponseMsg(StrId(1), TRUE)
    /\ c <= obs.callsAt[k]
    /\ calls[c].id = NumId(1)
    /\ calls[c].outcome = "pending"
    /\ HasEntry(c)

\* ------------------------------------------------------------------------
\* Notifications outside a turn (SpecTurn)
\* ------------------------------------------------------------------------
TurnMethods == {"item/agentMessage/delta", "item/completed", "turn/completed"}

\* this step handles a notification of the turn, and the view it finds is
\* neither waiting nor streaming
LateTurnNotification ==
  /\ state.viewState \notin {"waiting", "streaming"}
  /\ \E n \in Notifications(TurnBounds.snapshots, TurnBounds.errors) :
       n.method \in TurnMethods /\ NotificationOfStep(n, TurnBounds)

\* C35: a delta, item/completed or turn/completed notification that arrives
\* while the view is neither waiting nor streaming changes neither the view
\* state nor the conversation history.
C35_LateNotificationsInert ==
  [][LateTurnNotification =>
       /\ state'.viewState = state.viewState
       /\ state'.conversationHistory = state.conversationHistory]_vars

\* C35, history only
C35_LateNotificationsKeepHistory ==
  [][LateTurnNotification =>
       state'.conversationHistory = state.conversationHistory]_vars

\* C35, item/agentMessage/delta and item/completed only
C35_LateTextKeepsView ==
  [][(LateTurnNotification /\ obs'.serverTurn) =>
       /\ state'.viewState = state.viewState
       /\ state'.conversationHistory = state.conversationHistory]_vars

\* ------------------------------------------------------------------------
\* The microphone (SpecTurn)
\* ------------------------------------------------------------------------
\* C36: whenever state.micOpen is true the view is recording, or it is
\* transcribing and the capture has not been stopped yet.
C36_MicOpenOnlyWhileCapturing ==
  state.micOpen => state.viewState \in {"recording", "transcribing"}

\* C36, for the steps of the recording gestures alone: micOpen becomes true
\* only together with the view recording, and the step of
\* stopRecordingAndSendTurn that leaves transcribing finds the microphone
\* closed.
C36_MicOpenedIntoRecordingClosedBeforeWaiting ==
  [][/\ (~state.micOpen /\ state'.micOpen) => state'.viewState = "recording"
     /\ (state.viewState = "transcribing" /\ state'.viewState = "waiting") =>
          ~state'.micOpen]_vars

\* ------------------------------------------------------------------------
\* The busy flag of the gesture handlers
\* ------------------------------------------------------------------------
\* the activations of the G2 Claude gesture handler that have not returned
G2HandlersInFlight == {i \in DOMAIN flows : flows[i].handler}

\* C37 (G2 Claude, SpecClaude): at most one gesture handler is in flight, a
\* gesture is accepted only while none is (state.busy is true exactly while
\* one is in flight, so that the guard drops every other gesture), and the
\* flag is clear once the handler has finished.
C37_OneGestureHandlerAtATime ==
  /\ Cardinality(G2HandlersInFlight) <= 1
  /\ state.busy <=> G2HandlersInFlight # {}

\* the activations of the Codex gesture handler that have not returned
HandlersInFlight == {i \in DOMAIN flows : flows[i].caller = "gesture"}

\* C37, Codex controller only (SpecTurn): state.busy is true exactly while
\* one gesture handler is in flight, there is never a second one, and a click
\* or double click that arrives meanwhile changes nothing.
C37_CodexOneGestureHandlerAtATime ==
  /\ Cardinality(HandlersInFlight) = (IF state.busy THEN 1 ELSE 0)
  /\ state.busy =>
       \A eventType \in {"CLICK_EVENT", "DOUBLE_CLICK_EVENT"} :
         \A selected \in {"new", "thread"} :
           onEvenHubEvent(World, eventType, selected) = World

C37_CodexWitness ==
  /\ state.busy /\ state.viewState = "recording"
  /\ \E i \in DOMAIN flows : flows[i].caller = "gesture" /\ flows[i].pc = "gEnd"

\* ------------------------------------------------------------------------
\* The active turn id (SpecTurn)
\* ------------------------------------------------------------------------
\* C38: in every state whose view is connecting, list, idle, recording,
\* displaying or error, state.activeTurnId is null.
C38_TurnIdOnlyDuringTurn ==
  state.viewState \in {"connecting", "list", "idle", "recording", "displaying", "error"}
    => state.activeTurnId = 0

\* C38, for the steps that end a turn: a step that takes the view out of
\* waiting or streaming clears state.activeTurnId, unless it is the arrival
\* of an RPC response.
C38_EndingTheTurnClearsTurnId ==
  [][(/\ state.viewState \in {"waiting", "streaming"}
      /\ state'.viewState \notin {"waiting", "streaming"}
      /\ ~TurnResponse) => state'.activeTurnId = 0]_vars

\* ------------------------------------------------------------------------
\* SpecRender: renderPage of the Codex controller.  Here `state` holds the
\* render fields of the state object and `content`, the version of what
\* buildTextRender derives from the rest of it (title and body); `flows`
\* holds the render pass suspended at a call of the bridge with the texts it
\* built; obs.display is what the glasses show, obs.lastRequest the content
\* at the latest call of renderPage, obs.aborted whether the latest pass
\* left its loop on a failed rebuildPageContainer.
\* ------------------------------------------------------------------------
MaxContent == 4
MaxRenderRequests == 3

\* the title changes with every second version of the content
buildTextRender(s) == [titleText |-> (s.content + 1) \div 2, bodyText |-> s.content]

InitRenderState ==
  [content |-> 1, renderPending |-> FALSE, renderInFlight |-> FALSE,
   startupRendered |-> FALSE, renderLayout |-> "null",
   renderedTitle |-> 0, renderedBody |-> 0]

RenderWorld == [s |-> state, flows |-> flows, obs |-> obs]

renderPark(w, f, pc) == [w EXCEPT !.flows = Append(@, [f EXCEPT !.pc = pc])]

\* the bridge has put the page of the pass, or one container of it, on the display
shown(w, f) == [w EXCEPT !.obs.display = [title |-> f.titleText, body |-> f.bodyText]]
shownTitle(w, f) == [w EXCEPT !.obs.display.title = f.titleText]
shownBody(w, f) == [w EXCEPT !.obs.display.body = f.bodyText]

\* `finally { state.renderInFlight = false }`
renderPassEnd(w) == [w EXCEPT !.s.renderInFlight = FALSE]

\* the pass leaves the loop by `throw` or `break`
renderPassAborted(w) == renderPassEnd([w EXCEPT !.obs.aborted = TRUE])

RECURSIVE renderLoop(_)

\* the end of the loop body, and the loop's next test
iterationDone(w, f) ==
  renderLoop([w EXCEPT !.s.renderLayout = "text",
                       !.s.renderedTitle = f.titleText,
                       !.s.renderedBody = f.bodyText])

\* upgradeTextContainer for the body: nothing to do when the text is the same
upgradeBody(w, f) ==
  IF w.s.renderedBody = f.bodyText THEN iterationDone(w, f)
  ELSE renderPark(w, f, "upgradeBody")

\* upgradeTextContainer for the title
upgradeTitle(w, f) ==
  IF w.s.renderedTitle = f.titleText THEN upgradeBody(w, f)
  ELSE renderPark(w, f, "upgradeTitle")

\* `while (state.renderPending) { ... }` up to the next call of the bridge
renderLoop(w) ==
  IF ~w.s.renderPending THEN renderPassEnd(w)
  ELSE LET w1 == [w EXCEPT !.s.renderPending = FALSE]
           t == buildTextRender(w1.s)
           f == [pc |-> "", titleText |-> t.titleText, bodyText |-> t.bodyText]
       IN IF ~w1.s.startupRendered THEN renderPark(w1, f, "createStartUp")
          ELSE IF w1.s.renderLayout # "text" THEN renderPark(w1, f, "rebuildLayout")
          ELSE upgradeTitle(w1, f)

renderPageNoInFlightCheck(w) ==
  renderLoop([w EXCEPT !.s.renderPending = TRUE, !.s.renderInFlight = TRUE,
                       !.obs.lastRequest = w.s.content, !.obs.aborted = FALSE])

\* renderPage(bridge)
renderPage(w) ==
  LET w1 == [w EXCEPT !.s.renderPending = TRUE, !.obs.lastRequest = w.s.content]
  IN IF w.s.renderInFlight THEN w1
     ELSE renderLoop([w1 EXCEPT !.s.renderInFlight = TRUE, !.obs.aborted = FALSE])

\* the pass f goes on when the bridge has answered; ok: the call succeeded
renderResume(w, f, ok) ==
  CASE f.pc = "createStartUp" ->
         IF ok THEN iterationDone([shown(w, f) EXCEPT !.s.startupRendered = TRUE], f)
         ELSE renderPark(w, f, "createRebuild")
    [] f.pc = "createRebuild" ->
         IF ok THEN iterationDone([shown(w, f) EXCEPT !.s.startupRendered = TRUE], f)
         ELSE renderPassAborted(w)
    [] f.pc = "rebuildLayout" ->
         IF ok THEN iterationDone(shown(w, f), f) ELSE renderPassAborted(w)
    [] f.pc = "upgradeTitle" ->
         IF ok THEN upgradeBody(shownTitle(w, f), f) ELSE renderPark(w, f, "fallbackRebuild")
    [] f.pc = "upgradeBody" ->
         IF ok THEN iterationDone(shownBody(w, f), f) ELSE renderPark(w, f, "fallbackRebuild")
    [] f.pc = "fallbackRebuild" ->
         IF ok THEN iterationDone(shown(w, f), f)
         ELSE renderPassAborted([w EXCEPT !.s.renderLayout = "null", !.s.startupRendered = FALSE])
    [] OTHER -> w

RenderStep(w) ==
  /\ state' = w.s
  /\ flows' = w.flows
  /\ obs' = w.obs
  /\ UNCHANGED <<rpcVars, last>>

InitRender ==
  /\ InitClient
  /\ state = InitRenderState
  /\ flows = <<>>
  /\ obs = [display |-> [title |-> 0, body |-> 0], lastRequest |-> 0, requests |-> 0,
            aborted |-> FALSE]

\* the controller changes what the page shows
RenderMutate ==
  /\ state.content < MaxContent
  /\ RenderStep([RenderWorld EXCEPT !.s.content = @ + 1])

\* some function of the controller calls renderPage
RenderRequest ==
  /\ obs.requests < MaxRenderRequests
  /\ RenderStep(renderPage([RenderWorld EXCEPT !.obs.requests = @ + 1]))

\* the bridge completes the call the pass is waiting for
RenderBridgeDone ==
  \E i \in DOMAIN flows :
    RenderStep(renderResume([RenderWorld EXCEPT !.flows = RemoveAt(@, i)], flows[i], TRUE))

\* the bridge reports that the call failed
RenderBridgeFailed ==
  \E i \in DOMAIN flows :
    RenderStep(renderResume([RenderWorld EXCEPT !.flows = RemoveAt(@, i)], flows[i], FALSE))

NextRender ==
  \/ RenderMutate
  \/ RenderRequest
  \/ RenderBridgeDone
  \/ RenderBridgeFailed

SpecRender == InitRender /\ [][NextRender]_vars

\* the display shows the page built from one version of the content, not
\* older than the version at the latest call of renderPage
DisplayUpToDate ==
  /\ obs.display.body >= obs.lastRequest
  /\ obs.display.title = buildTextRender([content |-> obs.display.body]).titleText

\* C39: at most one render pass is in flight; and when none is, no request
\* is left pending (a call of renderPage made during a pass was followed by
\* another iteration of the pass) and the display shows the content as it
\* was at the latest call of renderPage or later.
C39_RenderCoalescedNothingLost ==
  /\ Len(flows) <= 1
  /\ (flows # <<>>) => state.renderInFlight
  /\ ~state.renderInFlight => (~state.renderPending /\ DisplayUpToDate)

\* C39, the request alone: when no pass is in flight no request is pending.
C39_NoRequestLeftPending ==
  ~state.renderInFlight => ~state.renderPending

\* C39 for a pass that was not aborted: at most one pass is in flight, and
\* when none is and the latest pass did not end on a failed
\* rebuildPageContainer, no request is pending and the display is up to date.
C39_NothingLostUnlessPassAborted ==
  /\ Len(flows) <= 1
  /\ (flows # <<>>) => state.renderInFlight
  /\ (~state.renderInFlight /\ ~obs.aborted) => (~state.renderPending /\ DisplayUpToDate)

C39_CoalescedWitness ==
  /\ ~state.renderInFlight /\ obs.requests = 3 /\ ~obs.aborted
  /\ state.startupRendered /\ obs.display.body = 3 /\ obs.lastRequest = 3


\* C39 in the G2 Claude controller, whose renderPage ignores what the bridge
\* calls return: when no pass is in flight no request is pending, and at
\* most one flow is inside a pass.
C39_G2NoRequestLeftPending ==
  /\ ~state.renderInFlight => ~state.renderPending
  /\ Cardinality({i \in DOMAIN flows : flows[i].pc \in RenderPcs}) <= 1


\* ------------------------------------------------------------------------
\* SpecRelay: the response relay of the dev server (g2BridgePlugin in
\* vite.config.ts).  `state` holds g2Sessions, the map from session id to
\* record, and the configured bridge secret; `flows` the handlers of
\* /__g2_receive that wait for the body of their request; obs holds what the
\* clients see and do: the number of sessions created, the responses pushed
\* per session, the last answer of /__g2_poll, the text delivered last per
\* session.  A text is a sequence of character codes.  The bot posts
\* different responses: the n-th response pushed for session s carries
\* the character 1000 * s + n.  lastSeenAt is kept as `expired`: the TTL
\* has passed since the session was last seen.
\* ------------------------------------------------------------------------
MaxRelaySessions == 2
MaxPosts == 21
MaxRelayPolls == 2
MaxRelayFlows == 1
G2_SESSION_MAX_RESPONSES == 20

IsAnsiParameter(c) == c \in 48..57 \/ c = 59
IsAsciiLetter(c) == c \in 65..90 \/ c \in 97..122

\* the end of /[0-9;]*[A-Za-z]/ matched from position j of v, 0 for no match
RECURSIVE ansiEnd(_, _)
ansiEnd(v, j) ==
  IF j > Len(v) THEN 0
  ELSE IF IsAnsiParameter(v[j]) THEN ansiEnd(v, j + 1)
  ELSE IF IsAsciiLetter(v[j]) THEN j
  ELSE 0

\* .replace(/\u001b\[[0-9;]*[A-Za-z]/g, '')
RECURSIVE stripAnsi(_)
stripAnsi(v) ==
  IF v = <<>> THEN <<>>
  ELSE LET e == IF Len(v) >= 2 /\ v[1] = 27 /\ v[2] = 91 THEN ansiEnd(v, 3) ELSE 0
       IN IF e > 0 THEN stripAnsi(SubSeq(v, e + 1, Len(v)))
          ELSE <<v[1]>> \o stripAnsi(Tail(v))

\* [\u0000-\u0008\u000B\u000C\u000E-\u001F\u007F-\u009F]
IsControlCode(c) == c \in 0..8 \/ c \in {11, 12} \/ c \in 14..31 \/ c \in 127..159

IsWhiteSpace(c) == c \in {9, 10, 11, 12, 13, 32, 160}

RECURSIVE g2TrimStart(_)
g2TrimStart(v) == IF v # <<>> /\ IsWhiteSpace(Head(v)) THEN g2TrimStart(Tail(v)) ELSE v

RECURSIVE g2TrimEnd(_)
g2TrimEnd(v) ==
  IF v # <<>> /\ IsWhiteSpace(v[Len(v)]) THEN g2TrimEnd(SubSeq(v, 1, Len(v) - 1)) ELSE v

\* String.prototype.trim
g2Trim(v) == g2TrimEnd(g2TrimStart(v))

normalizeG2Text(value) ==
  LET noAnsi == stripAnsi(value)
      spaced == [i \in DOMAIN noAnsi |-> IF IsControlCode(noAnsi[i]) THEN 32 ELSE noAnsi[i]]
      noCR == SelectSeq(spaced, LAMBDA c : c # 13)
  IN g2Trim(noCR)

\* the authorization header: absent, or a scheme and the rest of the value
getBearerToken(header) ==
  IF ~header.present \/ header.scheme # "Bearer " THEN <<>> ELSE g2Trim(header.rest)

\* equal lengths and timingSafeEqual
secureCompare(value, expected) ==
  IF Len(value) # Len(expected) THEN FALSE
  ELSE \A i \in 1..Len(value) : value[i] = expected[i]

\* randomBytes(24).toString('hex'): any token
SessionTokens == {<<97>>, <<98>>}

\* what a client may send as x-g2-session-token
PresentedTokens == SessionTokens \cup {<<32, 97, 32>>, <<97, 97>>, <<>>}

BridgeSecret == <<115>>

AuthorizationHeaders ==
  {[present |-> FALSE, scheme |-> "", rest |-> <<>>],
   [present |-> TRUE, scheme |-> "Basic ", rest |-> BridgeSecret],
   [present |-> TRUE, scheme |-> "Bearer ", rest |-> <<32>> \o BridgeSecret],
   [present |-> TRUE, scheme |-> "Bearer ", rest |-> <<120>>]}

\* the texts a bot may post as its next response with character p
RawTexts(p) == {<<p>>, <<32, p, 13, 10>>, <<27, 91, 48, 59, 49, 109, p, 7>>, <<7, 13>>, <<>>}

RelayIds == 1..MaxRelaySessions

NoPollAnswer == [status |-> 0, sessionId |-> 0, token |-> <<>>, text |-> <<>>]

PollAnswer(status) == [NoPollAnswer EXCEPT !.status = status]

InitRelay ==
  /\ InitClient
  /\ state \in {[g2Sessions |-> <<>>, bridgeSecret |-> secret] : secret \in {<<>>, BridgeSecret}}
  /\ flows = <<>>
  /\ obs = [created |-> 0, pushed |-> [s \in RelayIds |-> 0], polls |-> 0,
            lastPoll |-> NoPollAnswer, deliveredLast |-> [s \in RelayIds |-> 0]]

RelayStep(s, f, o) ==
  /\ state' = s
  /\ flows' = f
  /\ obs' = o
  /\ UNCHANGED <<rpcVars, last>>

\* g2Sessions.set(sessionId, record) and the other changes of the map
SetSession(sessions, id, record) ==
  [k \in DOMAIN sessions \cup {id} |-> IF k = id THEN record ELSE sessions[k]]

DeleteSessions(sessions, ids) == [k \in DOMAIN sessions \ ids |-> sessions[k]]

\* POST /__g2_session: a new id (randomUUID) and a new token
RelaySession ==
  /\ obs.created < MaxRelaySessions
  /\ \E token \in SessionTokens :
       RelayStep([state EXCEPT !.g2Sessions =
                    SetSession(@, obs.created + 1,
                               [token |-> token, expired |-> FALSE, responses |-> <<>>])],
                 flows, [obs EXCEPT !.created = @ + 1])

\* POST /__g2_receive (another method is answered with 405, a missing
\* secret with 500, a wrong bearer token with 401, and nothing changes): the
\* handler waits for the body
RelayReceive ==
  /\ Len(flows) < MaxRelayFlows
  /\ state.bridgeSecret # <<>>
  /\ \E header \in AuthorizationHeaders :
       LET token == getBearerToken(header)
       IN /\ token # <<>> /\ secureCompare(token, state.bridgeSecret)
          /\ RelayStep(state, Append(flows, [pc |-> "readRequestBody"]), obs)

\* push the text and keep the newest G2_SESSION_MAX_RESPONSES
pushResponse(responses, text) ==
  LET all == Append(responses, text)
  IN IF Len(all) > G2_SESSION_MAX_RESPONSES
     THEN SubSeq(all, Len(all) - G2_SESSION_MAX_RESPONSES + 1, Len(all))
     ELSE all

RECURSIVE TotalPushed(_, _)
TotalPushed(pushed, n) == IF n = 0 THEN 0 ELSE pushed[n] + TotalPushed(pushed, n - 1)

\* the body has arrived: sessionId and text of the payload (a payload that
\* is not JSON, or without them, is answered with 400)
RelayBodyRead ==
  \E i \in DOMAIN flows, sessionId \in 0..MaxRelaySessions :
    \E raw \in RawTexts(1000 * sessionId + (IF sessionId = 0 THEN 0 ELSE obs.pushed[sessionId]) + 1) :
      LET text == normalizeG2Text(raw)
          rest == RemoveAt(flows, i)
      IN IF sessionId = 0 \/ text = <<>> THEN RelayStep(state, rest, obs)
         ELSE IF sessionId \notin DOMAIN state.g2Sessions THEN RelayStep(state, rest, obs)
         ELSE /\ TotalPushed(obs.pushed, MaxRelaySessions) < MaxPosts
              /\ RelayStep([state EXCEPT
                              !.g2Sessions[sessionId].responses = pushResponse(@, text),
                              !.g2Sessions[sessionId].expired = FALSE],
                           rest, [obs EXCEPT !.pushed[sessionId] = @ + 1])

pollNoTokenCheck(st, method, sessionId, header) ==
  IF method # "GET" THEN [st |-> st, answer |-> PollAnswer(405)]
  ELSE IF sessionId = 0 THEN [st |-> st, answer |-> PollAnswer(400)]
  ELSE IF sessionId \notin DOMAIN st.g2Sessions THEN [st |-> st, answer |-> PollAnswer(404)]
  ELSE LET session == st.g2Sessions[sessionId]
           text == IF session.responses = <<>> THEN <<>> ELSE Head(session.responses)
       IN [st |-> [st EXCEPT !.g2Sessions[sessionId].expired = FALSE,
                             !.g2Sessions[sessionId].responses =
                                IF @ = <<>> THEN <<>> ELSE Tail(@)],
           answer |-> [status |-> 200, sessionId |-> sessionId, token |-> header,
                       text |-> text]]

\* GET /__g2_poll?sessionId=...  with the header x-g2-session-token
poll(st, method, sessionId, header) ==
  IF method # "GET" THEN [st |-> st, answer |-> PollAnswer(405)]
  ELSE IF sessionId = 0 THEN [st |-> st, answer |-> PollAnswer(400)]
  ELSE IF sessionId \notin DOMAIN st.g2Sessions THEN [st |-> st, answer |-> PollAnswer(404)]
  ELSE LET session == st.g2Sessions[sessionId]
           sessionToken == g2Trim(header)
       IN IF sessionToken = <<>> \/ ~secureCompare(sessionToken, session.token)
          THEN [st |-> st, answer |-> PollAnswer(401)]
          ELSE LET text == IF session.responses = <<>> THEN <<>> ELSE Head(session.responses)
               IN [st |-> [st EXCEPT !.g2Sessions[sessionId].expired = FALSE,
                                     !.g2Sessions[sessionId].responses =
                                        IF @ = <<>> THEN <<>> ELSE Tail(@)],
                   answer |-> [status |-> 200, sessionId |-> sessionId, token |-> header,
                               text |-> text]]

RelayPoll ==
  /\ obs.polls < MaxRelayPolls
  /\ \E method \in {"GET", "POST"}, sessionId \in 0..MaxRelaySessions,
        header \in PresentedTokens :
       LET r == poll(state, method, sessionId, header)
       IN RelayStep(r.st, flows,
                    [obs EXCEPT !.polls = @ + 1, !.lastPoll = r.answer,
                                !.deliveredLast =
                                   IF r.answer.text = <<>> THEN @
                                   ELSE [@ EXCEPT ![sessionId] = r.answer.text[1]]])

\* the TTL passes without a request for the session
RelayTimePasses ==
  \E id \in DOMAIN state.g2Sessions :
    /\ ~state.g2Sessions[id].expired
    /\ RelayStep([state EXCEPT !.g2Sessions[id].expired = TRUE], flows, obs)

\* the cleanup timer
RelayCleanup ==
  LET old == {id \in DOMAIN state.g2Sessions : state.g2Sessions[id].expired}
  IN /\ old # {}
     /\ RelayStep([state EXCEPT !.g2Sessions = DeleteSessions(@, old)], flows, obs)

NextRelay ==
  \/ RelaySession
  \/ RelayReceive
  \/ RelayBodyRead
  \/ RelayPoll
  \/ RelayTimePasses
  \/ RelayCleanup

SpecRelay == InitRelay /\ [][NextRelay]_vars

ResponsesOf(id) == state.g2Sessions[id].responses

\* the queue holds consecutive responses of its session that end with
\* the one pushed last, all of them newer than the one delivered last
QueueInPostingOrder(id) ==
  LET q == ResponsesOf(id)
  IN /\ \A i \in DOMAIN q : q[i] = <<1000 * id + obs.pushed[id] - Len(q) + i>>
     /\ \A i \in DOMAIN q : q[i][1] > obs.deliveredLast[id]

\* this step delivers a response
Delivers == obs'.polls = obs.polls + 1 /\ obs'.lastPoll.text # <<>>

\* the response goes to a poll with the id of its session and the token of
\* that session; it is the oldest in the queue, it leaves the queue, and it
\* is newer than every response delivered for the session before
DeliveredToItsSession ==
  LET a == obs'.lastPoll
      id == a.sessionId
  IN /\ id \in DOMAIN state.g2Sessions
     /\ g2Trim(a.token) = state.g2Sessions[id].token
     /\ a.text[1] \div 1000 = id
     /\ ResponsesOf(id) # <<>> /\ a.text = Head(ResponsesOf(id))
     /\ state'.g2Sessions[id].responses = Tail(ResponsesOf(id))
     /\ a.text[1] > obs.deliveredLast[id]
     /\ \A other \in DOMAIN state.g2Sessions \ {id} :
          state'.g2Sessions[other] = state.g2Sessions[other]

\* a step that is not a delivery takes nothing from a full queue but its
\* oldest entries, and takes nothing from any other queue
OnlyOldestDropped ==
  \A id \in DOMAIN state.g2Sessions \cap DOMAIN state'.g2Sessions :
    LET q == ResponsesOf(id)
        q2 == state'.g2Sessions[id].responses
    IN \/ q2 = q
       \/ q2 = Append(q, q2[Len(q2)]) /\ Len(q2) <= G2_SESSION_MAX_RESPONSES
       \/ /\ Len(q) = G2_SESSION_MAX_RESPONSES
          /\ q2 = Append(Tail(q), q2[Len(q2)])

\* C40: every queue holds at most 20 responses, in posting order; a response
\* is delivered only to a poll with its session's id and token, oldest
\* first and never twice; a queue loses entries otherwise only at its head
\* when it is full.
C40_RelayDeliversOnceInOrderToItsSession ==
  /\ [](\A id \in DOMAIN state.g2Sessions :
          Len(ResponsesOf(id)) <= G2_SESSION_MAX_RESPONSES /\ QueueInPostingOrder(id))
  /\ [][IF Delivers THEN DeliveredToItsSession ELSE OnlyOldestDropped]_vars

\* a full queue of the second session has lost its oldest response, and a
\* poll has been given the oldest one left
C40_Witness ==
  /\ 2 \in DOMAIN state.g2Sessions
  /\ obs.pushed[2] = 21
  /\ obs.lastPoll.status = 200 /\ obs.lastPoll.sessionId = 2
  /\ obs.lastPoll.text = <<2002>>
  /\ Len(ResponsesOf(2)) = 19

====
